---- MODULE Spec2Model ----
(***************************************************************************)
(* Chat server with file sending: the session handlers of server.py, the   *)
(* in-memory group registry of models.py and the storage functions of      *)
(* data_base.py they call.                                                  *)
(*                                                                         *)
(* One handler thread runs per connection.  A block of code executed       *)
(* under "with self.lock" is one atomic action; a database function is     *)
(* one atomic action (one SQLite transaction); code outside the lock is    *)
(* split wherever another thread can observe or change what it reads.      *)
(* Timestamps are left out of the messages.                                *)
(***************************************************************************)
EXTENDS Integers, Sequences, FiniteSets, Bags, TLC

\* ------------------------------------------------------------------ bounds

\* Requests served in the Active state, over all sessions together.
MaxRequests == 2

\* Chat messages sent in the runs with three connections.
MaxBcastChats == 1

\* Transfer threads started, over all sessions together.
MaxTransfers == 3

\* Transfer threads started in the runs with one client.
MaxStreamTransfers == 2

\* Frames written to the socket of the codec runs.
MaxFrames == 2

\* Length of the long chat text of the codec runs; its frame needs the
\* second byte of the header.
LongLen == 220

\* Largest file, in bytes.
MaxFileLen == 3

\* The size of one read: recv(4096) and f.read(4096), scaled down.
BufSize == 2

\* Last value of the coarse clock int(time.time()).
MaxClock == 1

\* Uploads in the runs with a stalled client.
MaxStallUploads == 1

\* Transfers in the runs of the port counter.
MaxPortTransfers == 600

\* Bytes a send call takes when it does not take the whole rest.
SendPiece == 32

\* Upload requests of the client runs.
MaxAsks == 3

\* Longest file name of the naming runs.
MaxNameLen == 4

\* ------------------------------------------------------------- value sets

\* Connections accepted by ChatServer.start; one handler thread each.  They
\* are named in the order in which their handlers read a first message.
Conns == {"c1", "c2", "c3"}

Earlier(c) == IF c = "c1" THEN {} ELSE IF c = "c2" THEN {"c1"} ELSE {"c1", "c2"}

\* The connections of the runs with two clients.
TwoConns == {"c1", "c2"}

\* ChatServer.__init__: the port the server itself listens on.
MainPort == 12989

\* The value of a local variable that holds None.
None == "none"

\* Nickname fields as sent by clients: strings over a letter and the blank.
RawNicknames ==
    { <<>>, <<" ">>, <<"a">>, <<"b">>, <<" ", "a">>, <<"a", " ">> }

\* Group names clients put in their requests.
GroupNames == {"General", "Dev"}

\* File names in upload requests (no directory part).
FileNames == {"f"}

\* Unique storage keys: f"{int(time.time())}_{filename}", kept as a pair.
Keys == (0..MaxClock) \X FileNames

NoKey == << -1, "" >>

\* The key "": os.path.join('server_files', "") is the directory itself.
DirKey == << -2, "" >>

\* str.strip(): leading and trailing blanks removed.
RECURSIVE lstrip(_)
lstrip(s) ==
    IF s # <<>> /\ Head(s) = " " THEN lstrip(Tail(s)) ELSE s

RECURSIVE rstrip(_)
rstrip(s) ==
    IF s # <<>> /\ s[Len(s)] = " " THEN rstrip(SubSeq(s, 1, Len(s) - 1)) ELSE s

strip(s) == rstrip(lstrip(s))

\* The nicknames registrations can produce.
Nicknames == { strip(r) : r \in RawNicknames } \ { <<>> }

\* ------------------------------------------------------------------ state

VARIABLES
    pc,             \* position of each connection's handle_client thread
    nickname,       \* handle_client's local nickname (<<>> while unset)
    user_groups,    \* handle_client's local user_groups
    data,           \* handle_client's local data: the request being served
    bcast,          \* the GroupChat.broadcast loop a thread is running
    users,          \* ChatServer.users: connections in insertion order
    groups,         \* ChatServer.groups: name -> GroupChat.members (a list)
    next_file_port, \* ChatServer.next_file_port
    dbGroups,       \* table groups: the group names
    dbMembers,      \* table group_members: <<nickname, group name>>
    dbMessages,     \* table messages, in insertion order
    out,            \* envelopes written to each connection (a bag)
    nreq,           \* requests served so far (numbers the chat texts)
    clock,          \* int(time.time())
    files,          \* directory server_files: key -> content
    transfers,      \* the transfer threads started, in order, each with
                    \* its client and its connection
    stream,         \* the bytes written to a socket and not yet read
    framesSent,     \* the messages send_message has written, in order
    received,       \* what the calls of receive_message have returned
    rcv,            \* the receive_message call in progress
    eof,            \* the peer has closed the socket
    wrote,          \* every byte written to the socket, in order
    recvalls,       \* the calls of recvall that have returned: n and result
    causes,         \* why each call of receive_message returned
    naming,         \* a file name on its way: as uploaded, as key, as announced
    sending,        \* per handler thread: the bytes its sendall has yet to
                    \* hand to the socket
    client          \* the uploading client's NetworkThread: upload_requests,
                    \* the requests it has sent, the uploads it has started

vars == << pc, nickname, user_groups, data, bcast, users, groups,
           next_file_port, dbGroups, dbMembers, dbMessages, out, nreq,
           clock, files, transfers,
          stream, framesSent, received, rcv, eof, wrote, recvalls, causes,
          naming, sending, client >>

\* The variables of the file transfers.
\* The variables of the frame codec.
sockvars == << stream, framesSent, received, rcv, eof, wrote, recvalls,
              causes >>

cvars == << sockvars, naming, sending, client >>

xvars == << clock, files, transfers, cvars >>

\* ---------------------------------------------------------------- helpers

SeqToSet(s) == { s[i] : i \in 1..Len(s) }

\* list.remove(x) guarded by "x in list": the first occurrence is dropped.
RECURSIVE RemoveFirst(_, _)
RemoveFirst(s, x) ==
    IF s = <<>> THEN <<>>
    ELSE IF Head(s) = x THEN Tail(s)
    ELSE <<Head(s)>> \o RemoveFirst(Tail(s), x)

\* Number of elements of s that satisfy the test.
RECURSIVE CountIn(_, _)
CountIn(s, m) ==
    IF s = <<>> THEN 0
    ELSE (IF Head(s) = m THEN 1 ELSE 0) + CountIn(Tail(s), m)

\* Some enumeration of a finite set as a sequence.
RECURSIVE SetToSeq(_)
SetToSeq(S) ==
    IF S = {} THEN <<>>
    ELSE LET x == CHOOSE y \in S : TRUE IN <<x>> \o SetToSeq(S \ {x})

\* --------------------------------------------------------------- messages

\* All envelopes share one record shape; a field a type does not carry is
\* left at its default.  src is bookkeeping: the connection whose request
\* produced the envelope.
Envelope(type) ==
    [ type |-> type, nickname |-> <<>>, message |-> 0, notice |-> "",
      group_name |-> "", groups |-> {}, status |-> "", src |-> None,
      port |-> 0, key |-> NoKey, filename |-> "", filesize |-> 0,
      history |-> << >> ]

\* A request as handle_client's data holds it.  The field existing is no
\* field of the message: it records whether the registry held the named
\* group when the request was read.
Request(type) ==
    [ type |-> type, group_name |-> "", members |-> {}, key |-> NoKey,
      filename |-> "", filesize |-> 0, existing |-> FALSE ]

create_server_response(status) ==
    [ Envelope("server_response") EXCEPT !.status = status ]

create_update_group_list_message(gs) ==
    [ Envelope("update_group_list") EXCEPT !.groups = gs ]

create_group_history_response(history) ==
    [ Envelope("group_history_response") EXCEPT !.history = history ]

create_chat_message(nick, message_text, group_name, c) ==
    [ Envelope("chat") EXCEPT !.nickname = nick, !.message = message_text,
                              !.group_name = group_name, !.src = c ]

create_upload_ready_response(port, unique_filename) ==
    [ Envelope("upload_ready") EXCEPT !.port = port, !.key = unique_filename ]

create_download_ready_response(port, filename, filesize) ==
    [ Envelope("download_ready") EXCEPT !.port = port, !.filename = filename,
                                        !.filesize = filesize ]

create_file_notification(sender, filename, unique_filename, group_name, c) ==
    [ Envelope("file_notification") EXCEPT
        !.nickname = sender, !.filename = filename, !.key = unique_filename,
        !.group_name = group_name, !.src = c ]

create_system_message(notice, nick, group_name, c) ==
    [ Envelope("system") EXCEPT !.notice = notice, !.nickname = nick,
                                !.group_name = group_name, !.src = c ]

\* protocol.send_message(conn, m) on each connection of the set: bytes
\* written to a connection the server has closed are lost.  What a
\* connection was sent is kept as a bag of envelopes.
SendTo(o, targets, m) ==
    [ c \in Conns |-> IF c \in targets /\ pc[c] # "closed"
                      THEN o[c] (+) SetToBag({m}) ELSE o[c] ]

\* ---------------------------------------------------------------- storage

\* data_base.get_user_groups
get_user_groups(members, nick) == { g \in GroupNames : <<nick, g>> \in members }

\* A removal that deletes nothing.
remove_user_from_group_Never(members, nick, g) == members

\* A call that stores no membership.
add_user_to_group_Never(members, nick, g) == members

\* data_base.add_user_to_group
add_user_to_group(members, nick, g) ==
    IF g \in dbGroups THEN members \cup { <<nick, g>> } ELSE members

\* data_base.remove_user_from_group
remove_user_from_group(members, nick, g) ==
    IF g \in dbGroups THEN members \ { <<nick, g>> } ELSE members

\* An INSERT that does not fail on a taken name.
create_group_ok_Always(g) == TRUE

\* data_base.create_group: whether the INSERT into groups succeeds.
create_group_ok(g) == g \notin dbGroups

\* A content sqlite3 can bind as a parameter: a text (the chat texts are
\* numbered from 1; a JSON text made by json.dumps is one too).  A message
\* value that is a JSON object or list, written as a negative number, is
\* none: cursor.execute raises.
Bindable(content) == content.type # "" \/ content.message >= 0

\* data_base.save_message; an exception of the INSERT is caught and logged
\* (lines 288-289) and nothing is stored.
save_message(msgs, g, nick, content) ==
    IF g \in dbGroups /\ Bindable(content)
    THEN Append(msgs, [group |-> g, nickname |-> nick, content |-> content])
    ELSE msgs

\* data_base.get_group_history, lines 334-348: a stored content that is a
\* JSON text (a file notification) is handed out as it is, any other as a
\* chat message of its author.
HistoryItem(row) ==
    IF row.content.type = ""
    THEN create_chat_message(row.nickname, row.content.message, row.group, None)
    ELSE row.content

\* The history items of the rows of group g, in order.
RECURSIVE HistoryOf(_, _)
HistoryOf(msgs, g) ==
    IF msgs = << >> THEN << >>
    ELSE (IF Head(msgs).group = g THEN << HistoryItem(Head(msgs)) >> ELSE << >>)
         \o HistoryOf(Tail(msgs), g)

\* data_base.get_group_history: the messages of the group in the order of
\* their timestamps, an empty list for a group that is not stored.  (The
\* limit of 50 messages is beyond the runs of the model; rows are taken in
\* insertion order.)
get_group_history(msgs, g) ==
    IF g \in dbGroups THEN HistoryOf(msgs, g) ELSE << >>

\* ---------------------------------------------------------- group registry

\* GroupChat.add_member
add_member(members, u) ==
    IF u \in SeqToSet(members) THEN members ELSE Append(members, u)

\* A removal that removes nothing.
remove_member_Never(members, u) == members

\* GroupChat.remove_member
remove_member(members, u) ==
    IF u \in SeqToSet(members) THEN RemoveFirst(members, u) ELSE members

\* GroupChat.broadcast run to completion with the member list unchanging
\* (the caller holds the lock): the recipients.
BroadcastTargets(members, sender) == SeqToSet(members) \ {sender}

NoBcast == [ group |-> "", idx |-> 0, msg |-> Envelope(""), sender |-> None,
             start |-> {} ]

\* The connections whose client has stopped reading and whose socket buffer
\* is full: sendall to them never returns.
Stalled == { c \in Conns : pc[c] = "stalled" }

\* No handler is blocked in a send made inside "with self.lock".
LockFree == \A c \in Conns : pc[c] # "stuck_locked"

\* GroupChat.broadcast: the members the loop has passed when it blocks in
\* the send to the first stalled recipient; all of them if there is none.
RECURSIVE Passed(_, _)
Passed(members, sender) ==
    IF members = << >> THEN << >>
    ELSE IF Head(members) # sender /\ Head(members) \in Stalled THEN << >>
    ELSE << Head(members) >> \o Passed(Tail(members), sender)

\* GroupChat.broadcast blocks in a send.
Blocks(members, sender) == (SeqToSet(members) \ {sender}) \cap Stalled # {}

\* NetworkThread.__init__: no upload was asked for.  The file paths are
\* numbered in the order of the requests; 0 stands for None.
NoClient == [ upload_requests |-> << >>, asked |-> 0, started |-> << >> ]

\* No file name has been handled.
NoNaming == [ phase |-> "none", filename |-> << >>, unique_filename |-> << >>,
             original_filename |-> << >> ]

\* ------------------------------------------------------------------- Init

Init ==
    /\ pc = [c \in Conns |-> "reg"]
    /\ nickname = [c \in Conns |-> <<>>]
    /\ user_groups = [c \in Conns |-> {}]
    /\ data = [c \in Conns |-> Request("")]
    /\ bcast = [c \in Conns |-> NoBcast]
    /\ users = <<>>
    /\ groups = [g \in {"General"} |-> <<>>]
    /\ next_file_port = 12395
    /\ dbGroups = {"General"}
    /\ dbMembers = {}
    /\ dbMessages = <<>>
    /\ out = [c \in Conns |-> EmptyBag]
    /\ nreq = 0
    /\ clock = 0
    /\ files = << >>
    /\ transfers = << >>
    /\ stream = << >>
    /\ framesSent = << >>
    /\ received = << >>
    /\ rcv = [phase |-> "header", data |-> << >>, msglen |-> 0]
    /\ eof = FALSE
    /\ wrote = << >>
    /\ recvalls = << >>
    /\ causes = << >>
    /\ naming = NoNaming
    /\ sending = [c \in Conns |-> << >>]
    /\ client = NoClient

\* ----------------------------------------------------------- registration

\* A test that finds no nickname in use.
NicknameTaken_Never(nick) == FALSE

\* handle_client, the test of line 189: some stored user holds the nickname.
NicknameTaken(nick) == \E u \in SeqToSet(users) : nickname[u] = nick

\* handle_client, registration: the first message is a nickname message
\* carrying raw.  The check and the response run under the lock.
Register(c, raw) ==
    /\ pc[c] = "reg"
    /\ LockFree
    /\ \A d \in Earlier(c) : pc[d] # "reg"
    /\ LET temp_nickname == strip(raw) IN
       IF temp_nickname = <<>> \/ NicknameTaken(temp_nickname)
       THEN /\ out' = SendTo(out, {c}, create_server_response("error"))
            /\ pc' = [pc EXCEPT ![c] = "closed"]
            /\ UNCHANGED nickname
       ELSE /\ nickname' = [nickname EXCEPT ![c] = temp_nickname]
            /\ out' = SendTo(out, {c}, create_server_response("ok"))
            /\ pc' = [pc EXCEPT ![c] = "setup"]
    /\ UNCHANGED << user_groups, data, bcast, users, groups, next_file_port,
                    dbGroups, dbMembers, dbMessages, nreq, xvars >>

\* A server that answers a wrong first message with an error response.
RegisterAbort_Error(c) ==
    /\ pc[c] = "reg"
    /\ \A d \in Earlier(c) : pc[d] # "reg"
    /\ out' = SendTo(out, {c}, create_server_response("error"))
    /\ pc' = [pc EXCEPT ![c] = "closed"]
    /\ UNCHANGED << nickname, user_groups, data, bcast, users, groups,
                    next_file_port, dbGroups, dbMembers, dbMessages, nreq, xvars >>

\* handle_client, line 185: the first message is no nickname message, or
\* receive_message returned None (no decodable frame, or the stream ended);
\* the handler returns and the finally block closes the connection.
RegisterAbort(c) ==
    /\ pc[c] = "reg"
    /\ \A d \in Earlier(c) : pc[d] # "reg"
    /\ pc' = [pc EXCEPT ![c] = "closed"]
    /\ UNCHANGED << nickname, user_groups, data, bcast, users, groups,
                    next_file_port, dbGroups, dbMembers, dbMessages, out, nreq, xvars >>

\* handle_client, lines 200-205: the General membership is stored and the
\* user's groups are read back.  (Nothing another thread writes touches this
\* nickname's General row, so the two calls are taken as one step.)
LoginPersist(c) ==
    /\ pc[c] = "setup"
    /\ dbMembers' = add_user_to_group(dbMembers, nickname[c], "General")
    /\ user_groups' = [user_groups EXCEPT
                         ![c] = get_user_groups(dbMembers', nickname[c])]
    /\ pc' = [pc EXCEPT ![c] = "join"]
    /\ UNCHANGED << nickname, data, bcast, users, groups, next_file_port,
                    dbGroups, dbMessages, out, nreq, xvars >>

\* handle_client, lines 208-212, under the lock: the session is stored and
\* joins the in-memory groups of user_groups.
JoinGroups(c) ==
    /\ pc[c] = "join"
    /\ LockFree
    /\ users' = Append(users, c)
    /\ groups' = [g \in DOMAIN groups |->
                    IF g \in user_groups[c] THEN add_member(groups[g], c)
                    ELSE groups[g]]
    /\ pc' = [pc EXCEPT ![c] = "sendlist"]
    /\ UNCHANGED << nickname, user_groups, data, bcast, next_file_port,
                    dbGroups, dbMembers, dbMessages, out, nreq, xvars >>

\* handle_client, lines 217-224: the group list is sent and the broadcast of
\* the join notice to General begins (no sender is excluded).
SendGroupList(c) ==
    /\ pc[c] = "sendlist"
    /\ out' = SendTo(out, {c}, create_update_group_list_message(user_groups[c]))
    /\ IF "General" \in DOMAIN groups
       THEN /\ bcast' = [bcast EXCEPT ![c] =
                  [ group |-> "General", idx |-> 1,
                    msg |-> create_system_message("joined", nickname[c], "General", c),
                    sender |-> None, start |-> SeqToSet(groups["General"]) ]]
            /\ pc' = [pc EXCEPT ![c] = "announce"]
       ELSE /\ pc' = [pc EXCEPT ![c] = "active"]
            /\ UNCHANGED bcast
    /\ UNCHANGED << nickname, user_groups, data, users, groups, next_file_port,
                    dbGroups, dbMembers, dbMessages, nreq, xvars >>

\* --------------------------------------------------------------- broadcast

\* A broadcast that excludes nobody.
IsRecipient_All(member, sender) == TRUE

\* GroupChat.broadcast, the test of line 29: the member is sent the message.
IsRecipient(member, sender) == member # sender

\* GroupChat.broadcast called without the lock: one turn of the loop over
\* self.members.  The list iterator keeps an index into the live list.
BroadcastStep(c) ==
    /\ pc[c] \in {"announce", "bcast"}
    /\ LET b == bcast[c]
           members == groups[b.group]
       IN /\ b.idx <= Len(members)
          /\ ~ (IsRecipient(members[b.idx], b.sender)
                  /\ members[b.idx] \in Stalled)
          /\ out' = IF IsRecipient(members[b.idx], b.sender)
                    THEN SendTo(out, {members[b.idx]}, b.msg) ELSE out
          /\ bcast' = [bcast EXCEPT ![c].idx = b.idx + 1]
    /\ UNCHANGED << pc, nickname, user_groups, data, users, groups,
                    next_file_port, dbGroups, dbMembers, dbMessages, nreq, xvars >>

\* GroupChat.broadcast: the iterator is exhausted; the handler goes back to
\* receive_message.
BroadcastEnd(c) ==
    /\ pc[c] \in {"announce", "bcast"}
    /\ bcast[c].idx > Len(groups[bcast[c].group])
    /\ pc' = [pc EXCEPT ![c] = "active"]
    /\ bcast' = [bcast EXCEPT ![c] = NoBcast]
    /\ UNCHANGED << nickname, user_groups, data, users, groups, next_file_port,
                    dbGroups, dbMembers, dbMessages, out, nreq, xvars >>

\* -------------------------------------------------------------------- chat

\* A server that answers a chat message for an unknown group with an error.
ChatUnknownGroup_Error(c, g) ==
    /\ out' = SendTo(out, {c}, create_server_response("error"))
    /\ UNCHANGED << dbMessages, bcast, pc >>

\* handle_client, line 252: "if target_group:" has no else branch; the
\* handler goes back to receive_message.
ChatUnknownGroup(c, g) == UNCHANGED << dbMessages, bcast, pc, out >>

\* handle_client, lines 246-258: a chat message naming group g.  The group is
\* looked up under the lock; the message is saved and the broadcast begins
\* after the lock is released.
ChatDispatch(c, g, message_text) ==
    /\ pc[c] = "active"
    /\ LockFree
    /\ nreq < MaxRequests
    /\ nreq' = nreq + 1
    /\ data' = [data EXCEPT ![c] = [Request("chat") EXCEPT !.group_name = g]]
    /\ IF g \in DOMAIN groups
       THEN /\ dbMessages' = save_message(dbMessages, g, nickname[c],
                                  [Envelope("") EXCEPT !.message = message_text])
            /\ bcast' = [bcast EXCEPT ![c] =
                  [ group |-> g, idx |-> 1,
                    msg |-> create_chat_message(nickname[c], message_text, g, c),
                    sender |-> c, start |-> SeqToSet(groups[g]) ]]
            /\ pc' = [pc EXCEPT ![c] = "bcast"]
            /\ UNCHANGED out
       ELSE ChatUnknownGroup(c, g)
    /\ UNCHANGED << nickname, user_groups, users, groups, next_file_port,
                    dbGroups, dbMembers, xvars >>

\* A chat message whose message field is a text, numbered by the request.
ChatRecv(c, g) == ChatDispatch(c, g, nreq + 1)

\* A chat message whose message field is a JSON object or list.
ChatRecvObject(c, g) == ChatDispatch(c, g, 0 - (nreq + 1))

\* ------------------------------------------------------------- leave_group

\* A handler that refuses no group.
LeaveRefused_Never(g) == FALSE

\* handle_leave_group, line 362: the request is refused.
LeaveRefused(g) == g = "General"

\* handle_leave_group, lines 360-364: General is refused; for any other name
\* the membership is deleted from storage.
LeaveRecv(c, g) ==
    /\ pc[c] = "active"
    /\ nreq < MaxRequests
    /\ nreq' = nreq + 1
    /\ data' = [data EXCEPT ![c] =
                  [Request("leave_group") EXCEPT
                      !.group_name = g, !.existing = g \in DOMAIN groups]]
    /\ IF LeaveRefused(g)
       THEN UNCHANGED << dbMembers, pc >>
       ELSE /\ dbMembers' = remove_user_from_group(dbMembers, nickname[c], g)
            /\ pc' = [pc EXCEPT ![c] = "leave_lock"]
    /\ UNCHANGED << nickname, user_groups, bcast, users, groups,
                    next_file_port, dbGroups, dbMessages, out, xvars >>

\* handle_leave_group, lines 366-375, under the lock: the remaining members
\* are told and the session leaves the in-memory group.
LeaveLocked(c) ==
    /\ pc[c] = "leave_lock"
    /\ LockFree
    /\ LET g == data[c].group_name IN
       IF g \in DOMAIN groups
       THEN /\ out' = SendTo(out, BroadcastTargets(Passed(groups[g], c), c),
                             create_system_message("left", nickname[c], g, c))
            /\ groups' = IF Blocks(groups[g], c) THEN groups
                         ELSE [groups EXCEPT ![g] = remove_member(groups[g], c)]
       ELSE UNCHANGED << out, groups >>
    /\ pc' = [pc EXCEPT ![c] =
                IF /\ data[c].group_name \in DOMAIN groups
                   /\ Blocks(groups[data[c].group_name], c)
                THEN "stuck_locked" ELSE "leave_reply"]
    /\ UNCHANGED << nickname, user_groups, data, bcast, users, next_file_port,
                    dbGroups, dbMembers, dbMessages, nreq, xvars >>

\* handle_leave_group, lines 378-380: the leaver is sent its group list.
LeaveReply(c) ==
    /\ pc[c] = "leave_reply"
    /\ out' = SendTo(out, {c}, create_update_group_list_message(
                                   get_user_groups(dbMembers, nickname[c])))
    /\ pc' = [pc EXCEPT ![c] = "active"]
    /\ UNCHANGED << nickname, user_groups, data, bcast, users, groups,
                    next_file_port, dbGroups, dbMembers, dbMessages, nreq, xvars >>

\* ------------------------------------------------------------ create_group

\* handle_group_creation, lines 350-352: the users named in the request are
\* added in the order of self.users.
RECURSIVE AddMembers(_, _, _)
AddMembers(members, us, names) ==
    IF us = <<>> THEN members
    ELSE AddMembers(IF nickname[Head(us)] \in names
                    THEN add_member(members, Head(us)) ELSE members,
                    Tail(us), names)

\* handle_group_creation, line 343: data_base.create_group stores the group
\* with the creator and the listed members, or fails on a taken name.
CreateRecv(c, g, ms) ==
    /\ pc[c] = "active"
    /\ nreq < MaxRequests
    /\ nreq' = nreq + 1
    /\ data' = [data EXCEPT ![c] =
                  [Request("create_group") EXCEPT !.group_name = g,
                                                  !.members = ms]]
    /\ IF create_group_ok(g)
       THEN /\ dbGroups' = dbGroups \cup {g}
            /\ dbMembers' = dbMembers \cup
                              { <<n, g>> : n \in ms \cup {nickname[c]} }
            /\ pc' = [pc EXCEPT ![c] = "create_lock"]
       ELSE UNCHANGED << dbGroups, dbMembers, pc >>
    /\ UNCHANGED << nickname, user_groups, bcast, users, groups,
                    next_file_port, dbMessages, out, xvars >>

\* handle_group_creation with a request that carries no "members" field:
\* data.get("members") is None.  For a taken name the INSERT into groups
\* raises IntegrityError first and create_group returns False.  For a fresh
\* name "members + [creator_nickname]" (data_base.py 211) raises TypeError,
\* which create_group does not catch: its connection is closed without
\* commit, so nothing is stored, and the exception leaves handle_client's
\* try block; the finally block (server.py 259-271) cleans the session up.
CreateNoMembers(c, g) ==
    /\ pc[c] = "active"
    /\ nreq < MaxRequests
    /\ nreq' = nreq + 1
    /\ data' = [data EXCEPT ![c] =
                  [Request("create_group") EXCEPT !.group_name = g]]
    /\ IF create_group_ok(g)
       THEN /\ LockFree
            /\ users' = remove_member(users, c)
            /\ groups' = [h \in DOMAIN groups |-> remove_member(groups[h], c)]
            /\ pc' = [pc EXCEPT ![c] = "closed"]
       ELSE UNCHANGED << users, groups, pc >>
    /\ UNCHANGED << nickname, user_groups, bcast, next_file_port, dbGroups,
                    dbMembers, dbMessages, out, xvars >>

\* handle_group_creation, lines 350-356: the users the loop has come to when
\* it blocks in the send to the first stalled user it names; all of them if
\* it names none.
RECURSIVE LoopUsers(_, _)
LoopUsers(us, names) ==
    IF us = << >> THEN << >>
    ELSE IF nickname[Head(us)] \in names /\ Head(us) \in Stalled
         THEN << Head(us) >>
         ELSE << Head(us) >> \o LoopUsers(Tail(us), names)

\* handle_group_creation, lines 344-356, under the lock: the group is made in
\* memory, the connected members join it and each is sent its group list.
CreateLocked(c) ==
    /\ pc[c] = "create_lock"
    /\ LockFree
    /\ LET g == data[c].group_name
           all_member_nicknames == data[c].members \cup {nickname[c]}
           old == IF g \in DOMAIN groups THEN groups[g] ELSE <<>>
           reached == LoopUsers(users, all_member_nicknames)
           named == { u \in SeqToSet(reached) \ Stalled :
                        nickname[u] \in all_member_nicknames }
       IN /\ groups' = [h \in DOMAIN groups \cup {g} |->
                          IF h = g THEN AddMembers(old, reached, all_member_nicknames)
                          ELSE groups[h]]
          /\ out' = [u \in Conns |->
                       IF u \in named /\ pc[u] # "closed"
                       THEN out[u] (+) SetToBag({create_update_group_list_message(
                                      get_user_groups(dbMembers, nickname[u]))})
                       ELSE out[u]]
          /\ pc' = [pc EXCEPT ![c] =
                      IF reached = users /\ SeqToSet(users) \cap Stalled
                            \cap { u \in Conns : nickname[u] \in all_member_nicknames } = {}
                      THEN "active" ELSE "stuck_locked"]
    /\ UNCHANGED << nickname, user_groups, data, bcast, users, next_file_port,
                    dbGroups, dbMembers, dbMessages, nreq, xvars >>

\* --------------------------------------------------- nickname when active

\* A server that renames the session on a nickname message.
NicknameRecv_Rename(c, raw) ==
    /\ pc[c] = "active"
    /\ nreq < MaxRequests
    /\ nreq' = nreq + 1
    /\ data' = [data EXCEPT ![c] = Request("nickname")]
    /\ nickname' = [nickname EXCEPT ![c] = strip(raw)]
    /\ UNCHANGED << pc, user_groups, bcast, users, groups, next_file_port,
                    dbGroups, dbMembers, dbMessages, out, xvars >>

\* handle_client, lines 231-258: a nickname message carrying raw arrives in
\* the main loop; its type matches no branch of the dispatch and the loop
\* goes back to receive_message.
NicknameRecv(c, raw) ==
    /\ pc[c] = "active"
    /\ nreq < MaxRequests
    /\ nreq' = nreq + 1
    /\ data' = [data EXCEPT ![c] = Request("nickname")]
    /\ UNCHANGED << pc, nickname, user_groups, bcast, users, groups,
                    next_file_port, dbGroups, dbMembers, dbMessages, out,
                    xvars >>

\* ------------------------------------------------------------- get_history

\* handle_get_history, lines 382-386: the history of the group named is read
\* from storage and sent to the requester, whatever the name.
GetHistory(c, g) ==
    /\ pc[c] = "active"
    /\ nreq < MaxRequests
    /\ nreq' = nreq + 1
    /\ data' = [data EXCEPT ![c] =
                  [Request("get_history") EXCEPT !.group_name = g]]
    /\ out' = SendTo(out, {c}, create_group_history_response(
                                   get_group_history(dbMessages, g)))
    /\ UNCHANGED << pc, nickname, user_groups, bcast, users, groups,
                    next_file_port, dbGroups, dbMembers, dbMessages, xvars >>

\* ----------------------------------------------------------------- cleanup

\* handle_client, lines 229 and 259-271: receive_message returns None; under
\* the lock the session is removed from self.users and from every group, and
\* the connection is closed.
Disconnect(c) ==
    /\ pc[c] = "active"
    /\ LockFree
    /\ users' = remove_member(users, c)
    /\ groups' = [g \in DOMAIN groups |-> remove_member(groups[g], c)]
    /\ pc' = [pc EXCEPT ![c] = "closed"]
    /\ UNCHANGED << nickname, user_groups, data, bcast, next_file_port,
                    dbGroups, dbMembers, dbMessages, out, nreq, xvars >>

\* handle_client, lines 259-271, reached by an exception: a storage call of
\* the login (lines 201-205), of handle_group_creation or of
\* handle_leave_group raises outside the lock (the calls of data_base that
\* catch no sqlite3.OperationalError, the list arithmetic of line 344).  The
\* finally block is the same: "if conn in self.users" and remove_member
\* find nothing to remove for a session that was never stored.
HandlerRaises(c) ==
    /\ pc[c] \in {"setup", "join", "create_lock", "leave_lock", "leave_reply"}
    /\ LockFree
    /\ users' = remove_member(users, c)
    /\ groups' = [g \in DOMAIN groups |-> remove_member(groups[g], c)]
    /\ pc' = [pc EXCEPT ![c] = "closed"]
    /\ UNCHANGED << nickname, user_groups, data, bcast, next_file_port,
                    dbGroups, dbMembers, dbMessages, out, nreq, xvars >>

\* ---------------------------------------------------------- file transfers

Min(a, b) == IF a < b THEN a ELSE b

Max(a, b) == IF a > b THEN a ELSE b

\* The nickname under which file notifications are saved.
SystemNick == <<"system">>

\* The file the client of the k-th transfer uploads: n bytes, each marked
\* with the transfer and its position so that any mix-up shows.
Content(k, n) == [i \in 1..n |-> 10 * k + i]

\* f.write(chunk) at offset off of a stored file; a gap is filled with zeros.
WriteAt(content, off, chunk) ==
    [i \in 1..Max(Len(content), off + Len(chunk)) |->
        IF i > off /\ i <= off + Len(chunk) THEN chunk[i - off]
        ELSE IF i <= Len(content) THEN content[i] ELSE 0]

\* f.read(4096) at offset off.
ReadAt(content, off) ==
    SubSeq(content, off + 1, Min(Len(content), off + BufSize))

\* The directory with the file under key holding content.
StoreFile(fs, key, content) ==
    [k \in DOMAIN fs \cup {key} |-> IF k = key THEN content ELSE fs[k]]

\* The directory server_files exists: a receiver thread has passed lines
\* 51-52, which create it.
DirExists ==
    \E t \in 1..Len(transfers) :
        transfers[t].kind = "upload" /\ transfers[t].lpc # "start"

\* os.path.exists(filepath): true of a stored file and of the directory.
Exists(key) == key \in DOMAIN files \/ (key = DirKey /\ DirExists)

\* os.path.getsize of a directory: a positive size the platform chooses,
\* here more than any file of the model holds.
DirSize == MaxFileLen + 1

\* os.path.getsize(filepath)
getsize(key) == IF key \in DOMAIN files THEN Len(files[key]) ELSE DirSize

\* handle_download_request, line 319: the key without its timestamp prefix.
OriginalFilename(key) == key[2]

\* A counter that is not advanced.
NextFilePort_Same(port) == port

\* handle_upload_request, line 281 and handle_download_request, line 316.
NextFilePort(port) == port + 1

\* A transfer thread of the server (lpc) with the client thread that
\* connects to it (cpc) and the connection between them.  recvs and after
\* are bookkeeping: the number of recv calls that returned data, and the
\* uploads to the same key that were complete when a download was requested.
NewTransfer(kind, c, port, key, filesize, src, after) ==
    [ kind |-> kind, owner |-> c, port |-> port, key |-> key,
      filesize |-> filesize, src |-> src, lpc |-> "start", cpc |-> "idle",
      wire |-> <<>>, eof |-> FALSE, spos |-> 0, sent |-> <<>>,
      bytes_received |-> 0, got |-> <<>>, recvs |-> 0, after |-> after ]

Threads == 1..Len(transfers)

\* The upload thread t has stored every byte of its client's file.
UploadComplete(t) ==
    /\ transfers[t].kind = "upload"
    /\ transfers[t].lpc = "done"
    /\ transfers[t].bytes_received = transfers[t].filesize
    /\ transfers[t].got = transfers[t].src

\* handle_upload_request, lines 275-300: a port is taken under the lock, the
\* key is made from the clock, the receiver thread is started, the requester
\* is answered and the notification is saved.
UploadRequestSized(c, g, name, n, m) ==
    /\ pc[c] = "active"
    /\ LockFree
    /\ LET port == next_file_port
           unique_filename == <<clock, name>>
           notification == create_file_notification(
                               nickname[c], name, unique_filename, g, c)
       IN /\ next_file_port' = NextFilePort(port)
          /\ transfers' = Append(transfers,
                 NewTransfer("upload", c, port, unique_filename, n,
                             Content(Len(transfers) + 1, m), {}))
          /\ out' = SendTo(out, {c},
                           create_upload_ready_response(port, unique_filename))
          /\ dbMessages' = save_message(dbMessages, g, SystemNick, notification)
          /\ data' = [data EXCEPT ![c] =
                 [Request("upload_request") EXCEPT
                     !.group_name = g, !.filename = name, !.filesize = n,
                     !.key = unique_filename]]
    /\ pc' = [pc EXCEPT ![c] = "upload_notify"]
    /\ UNCHANGED << nickname, user_groups, bcast, users, groups, dbGroups,
                    dbMembers, nreq, clock, files, cvars >>

\* An upload request of a client whose file holds, when it is sent, the n
\* bytes that os.path.getsize found when the request was made
\* (network_client.py 227-228).
UploadRequest(c, g, name, n) == UploadRequestSized(c, g, name, n, n)

\* A notification from which its requester is left out.
NotificationSender_Requester(c) == c

\* The sender handed to broadcast at line 306: None, nobody is left out.
NotificationSender(c) == None

\* handle_upload_request, lines 303-306, under the lock: the notification is
\* broadcast to the group, the requester included.
UploadNotify(c) ==
    /\ pc[c] = "upload_notify"
    /\ LockFree
    /\ LET g == data[c].group_name IN
       IF g \in DOMAIN groups
       THEN out' = SendTo(out, BroadcastTargets(
                                   Passed(groups[g], NotificationSender(c)),
                                   NotificationSender(c)),
                          create_file_notification(nickname[c],
                              data[c].filename, data[c].key, g, c))
       ELSE UNCHANGED out
    /\ pc' = [pc EXCEPT ![c] =
                IF /\ data[c].group_name \in DOMAIN groups
                   /\ Blocks(groups[data[c].group_name], NotificationSender(c))
                THEN "stuck_locked" ELSE "active"]
    /\ UNCHANGED << nickname, user_groups, data, bcast, users, groups,
                    next_file_port, dbGroups, dbMembers, dbMessages, nreq,
                    xvars >>

\* handle_download_request: for a stored key a port is taken under the lock,
\* the sender thread is started and the requester is answered; for any other
\* key nothing is done.
DownloadRequest(c, key) ==
    /\ pc[c] = "active"
    /\ data' = [data EXCEPT ![c] = [Request("download_request") EXCEPT !.key = key]]
    /\ IF Exists(key)
       THEN /\ LockFree
            /\ LET port == next_file_port
                   filesize == getsize(key)
               IN /\ next_file_port' = NextFilePort(port)
                  /\ transfers' = Append(transfers,
                        NewTransfer("download", c, port, key, filesize, <<>>,
                            { u \in Threads : /\ transfers[u].key = key
                                              /\ UploadComplete(u) }))
                  /\ out' = SendTo(out, {c}, create_download_ready_response(
                                   port, OriginalFilename(key), filesize))
       ELSE UNCHANGED << next_file_port, transfers, out >>
    /\ UNCHANGED << pc, nickname, user_groups, bcast, users, groups, dbGroups,
                    dbMembers, dbMessages, nreq, clock, files, cvars >>

\* The variables a transfer thread leaves alone.
ctlvars == << pc, nickname, user_groups, data, bcast, users, groups,
              next_file_port, dbGroups, dbMembers, dbMessages, out, nreq,
              cvars >>

\* A receiver that calls recv once.
RecvMore_Once(bytes_received, filesize) == bytes_received = 0 /\ filesize > 0

\* The loops "while bytes_received < self.filesize" of both receivers.
RecvMore(bytes_received, filesize) == bytes_received < filesize

\* recv(4096) returning k bytes: the receiving end of the connection after it.
Received(tr, k) ==
    [tr EXCEPT !.wire = SubSeq(tr.wire, k + 1, Len(tr.wire)),
               !.got = tr.got \o SubSeq(tr.wire, 1, k),
               !.bytes_received = tr.bytes_received + k,
               !.recvs = tr.recvs + 1]

\* sendall(chunk): the sending end of the connection after it.
Sent(tr, chunk) ==
    [tr EXCEPT !.wire = tr.wire \o chunk, !.sent = tr.sent \o chunk,
               !.spos = tr.spos + Len(chunk)]

\* ---- server, FileReceiverThread.run (an upload)

\* A listener that takes its port from the server's counter itself.
SrvRecvListen_Registry(t) ==
    /\ transfers[t].kind = "upload"
    /\ transfers[t].lpc = "start"
    /\ transfers' = [transfers EXCEPT ![t].lpc = "listening"]
    /\ next_file_port' = next_file_port + 1
    /\ UNCHANGED << pc, nickname, user_groups, data, bcast, users, groups,
                    dbGroups, dbMembers, dbMessages, out, nreq, cvars, clock,
                    files >>

\* lines 58-61: the listening socket is bound.
SrvRecvListen(t) ==
    /\ transfers[t].kind = "upload"
    /\ transfers[t].lpc = "start"
    /\ transfers' = [transfers EXCEPT ![t].lpc = "listening"]
    /\ UNCHANGED << ctlvars, clock, files >>

\* lines 62-67: a connection is accepted and the file is opened "wb", which
\* creates it or empties it.
SrvRecvAccept(t) ==
    /\ transfers[t].kind = "upload"
    /\ transfers[t].lpc = "listening"
    /\ transfers[t].cpc \in {"connected", "done"}
    /\ transfers' = [transfers EXCEPT ![t].lpc = "streaming"]
    /\ files' = StoreFile(files, transfers[t].key, <<>>)
    /\ UNCHANGED << ctlvars, clock >>

\* lines 68-73: recv returns k bytes, which are written to the file object;
\* the files of the model fit in its write buffer, so they stay there.
SrvRecvChunk(t, k) ==
    /\ transfers[t].kind = "upload"
    /\ transfers[t].lpc = "streaming"
    /\ RecvMore(transfers[t].bytes_received, transfers[t].filesize)
    /\ k \in 1..Min(BufSize, Len(transfers[t].wire))
    /\ transfers' = [transfers EXCEPT ![t] = Received(@, k)]
    /\ UNCHANGED << ctlvars, clock, files >>

\* lines 67-74: the loop ends, on the declared size or on a closed
\* connection; leaving the "with open" block writes the buffered bytes from
\* the start of the file, and the thread terminates.
SrvRecvEnd(t) ==
    /\ transfers[t].kind = "upload"
    /\ transfers[t].lpc = "streaming"
    /\ \/ ~ RecvMore(transfers[t].bytes_received, transfers[t].filesize)
       \/ transfers[t].wire = <<>> /\ transfers[t].eof
    /\ transfers' = [transfers EXCEPT ![t].lpc = "done"]
    /\ files' = StoreFile(files, transfers[t].key,
                    WriteAt(files[transfers[t].key], 0, transfers[t].got))
    /\ UNCHANGED << ctlvars, clock >>

\* ---- client, FileSenderThread.run (an upload)

\* network_client.py line 52: connect, refused while nothing listens.
CliSendConnect(t) ==
    /\ transfers[t].kind = "upload"
    /\ transfers[t].cpc = "idle"
    /\ transfers' = [transfers EXCEPT ![t].cpc =
            IF transfers[t].lpc = "start" THEN "refused" ELSE "connected"]
    /\ UNCHANGED << ctlvars, clock, files >>

\* network_client.py lines 56-60: a chunk is read and sent; sending to a
\* receiver that has closed ends the thread.
CliSendChunk(t) ==
    /\ transfers[t].kind = "upload"
    /\ transfers[t].cpc = "connected"
    /\ ReadAt(transfers[t].src, transfers[t].spos) # <<>>
    /\ transfers' = [transfers EXCEPT ![t] =
            IF @.lpc = "done"
            THEN [@ EXCEPT !.cpc = "done", !.eof = TRUE]
            ELSE Sent(@, ReadAt(@.src, @.spos))]
    /\ UNCHANGED << ctlvars, clock, files >>

\* network_client.py lines 57-59: end of file; the socket is closed.
CliSendClose(t) ==
    /\ transfers[t].kind = "upload"
    /\ transfers[t].cpc = "connected"
    /\ ReadAt(transfers[t].src, transfers[t].spos) = <<>>
    /\ transfers' = [transfers EXCEPT ![t].cpc = "done", ![t].eof = TRUE]
    /\ UNCHANGED << ctlvars, clock, files >>

\* ---- server, FileSenderThread.run (a download)

\* lines 104-107: the listening socket is bound.
SrvSendListen(t) ==
    /\ transfers[t].kind = "download"
    /\ transfers[t].lpc = "start"
    /\ transfers' = [transfers EXCEPT ![t].lpc = "listening"]
    /\ UNCHANGED << ctlvars, clock, files >>

\* lines 108-112: a connection is accepted and the file is opened "rb";
\* open raises for a directory, the connection is closed and the thread
\* ends (lines 118-119).
SrvSendAccept(t) ==
    /\ transfers[t].kind = "download"
    /\ transfers[t].lpc = "listening"
    /\ transfers[t].cpc \in {"connected", "done"}
    /\ transfers' = IF transfers[t].key \in DOMAIN files
                    THEN [transfers EXCEPT ![t].lpc = "streaming"]
                    ELSE [transfers EXCEPT ![t].lpc = "done", ![t].eof = TRUE]
    /\ UNCHANGED << ctlvars, clock, files >>

\* lines 113-117: a chunk is read from the stored file and sent; sending to
\* a client that has closed ends the thread.
SrvSendChunk(t) ==
    /\ transfers[t].kind = "download"
    /\ transfers[t].lpc = "streaming"
    /\ ReadAt(files[transfers[t].key], transfers[t].spos) # <<>>
    /\ transfers' = [transfers EXCEPT ![t] =
            IF @.cpc = "done"
            THEN [@ EXCEPT !.lpc = "done", !.eof = TRUE]
            ELSE Sent(@, ReadAt(files[@.key], @.spos))]
    /\ UNCHANGED << ctlvars, clock, files >>

\* lines 114-116: end of file; the connection is closed.
SrvSendClose(t) ==
    /\ transfers[t].kind = "download"
    /\ transfers[t].lpc = "streaming"
    /\ ReadAt(files[transfers[t].key], transfers[t].spos) = <<>>
    /\ transfers' = [transfers EXCEPT ![t].lpc = "done", ![t].eof = TRUE]
    /\ UNCHANGED << ctlvars, clock, files >>

\* ---- client, FileReceiverThread.run (a download)

\* network_client.py lines 96-100: connect, refused while nothing listens;
\* the destination file is opened.
CliRecvConnect(t) ==
    /\ transfers[t].kind = "download"
    /\ transfers[t].cpc = "idle"
    /\ transfers' = [transfers EXCEPT ![t].cpc =
            IF transfers[t].lpc = "start" THEN "refused" ELSE "connected"]
    /\ UNCHANGED << ctlvars, clock, files >>

\* network_client.py lines 102-107: recv returns k bytes, which are written.
CliRecvChunk(t, k) ==
    /\ transfers[t].kind = "download"
    /\ transfers[t].cpc = "connected"
    /\ RecvMore(transfers[t].bytes_received, transfers[t].filesize)
    /\ k \in 1..Min(BufSize, Len(transfers[t].wire))
    /\ transfers' = [transfers EXCEPT ![t] = Received(@, k)]
    /\ UNCHANGED << ctlvars, clock, files >>

\* network_client.py lines 102-108: the loop ends, on the announced size or
\* on a closed connection, and the thread terminates.
CliRecvEnd(t) ==
    /\ transfers[t].kind = "download"
    /\ transfers[t].cpc = "connected"
    /\ \/ ~ RecvMore(transfers[t].bytes_received, transfers[t].filesize)
       \/ transfers[t].wire = <<>> /\ transfers[t].eof
    /\ transfers' = [transfers EXCEPT ![t].cpc = "done"]
    /\ UNCHANGED << ctlvars, clock, files >>

\* int(time.time()) moves on.
Tick ==
    /\ clock < MaxClock
    /\ clock' = clock + 1
    /\ UNCHANGED << ctlvars, files, transfers >>

\* ------------------------------------------------------------ wire format
\* Texts are sequences of code points, byte strings sequences of 0..255.

\* The values json.dumps is given: texts, integers, lists of values, and
\* dicts, which are lists of entries [k |-> text, v |-> value].
JStr(s) == [kind |-> "str", l |-> << >>, n |-> 0, s |-> s]

JInt(n) == [kind |-> "int", l |-> << >>, n |-> n, s |-> << >>]

JList(l) == [kind |-> "list", l |-> l, n |-> 0, s |-> << >>]

JDict(l) == [kind |-> "dict", l |-> l, n |-> 0, s |-> << >>]

Entry(k, v) == [k |-> k, v |-> v]

\* The literals of protocol.py, letter by letter.
Lit ==
    [ type |-> <<116, 121, 112, 101>>,
      port |-> <<112, 111, 114, 116>>,
      filename |-> <<102, 105, 108, 101, 110, 97, 109, 101>>,
      filesize |-> <<102, 105, 108, 101, 115, 105, 122, 101>>,
      unique_filename |-> <<117, 110, 105, 113, 117, 101, 95, 102, 105, 108,
                            101, 110, 97, 109, 101>>,
      group_name |-> <<103, 114, 111, 117, 112, 95, 110, 97, 109, 101>>,
      query |-> <<113, 117, 101, 114, 121>>,
      results |-> <<114, 101, 115, 117, 108, 116, 115>>,
      members |-> <<109, 101, 109, 98, 101, 114, 115>>,
      groups |-> <<103, 114, 111, 117, 112, 115>>,
      status |-> <<115, 116, 97, 116, 117, 115>>,
      message |-> <<109, 101, 115, 115, 97, 103, 101>>,
      nickname |-> <<110, 105, 99, 107, 110, 97, 109, 101>>,
      timestamp |-> <<116, 105, 109, 101, 115, 116, 97, 109, 112>>,
      history |-> <<104, 105, 115, 116, 111, 114, 121>>,
      sender |-> <<115, 101, 110, 100, 101, 114>>,
      download_ready |-> <<100, 111, 119, 110, 108, 111, 97, 100, 95, 114,
                           101, 97, 100, 121>>,
      download_request |-> <<100, 111, 119, 110, 108, 111, 97, 100, 95, 114,
                             101, 113, 117, 101, 115, 116>>,
      leave_group |-> <<108, 101, 97, 118, 101, 95, 103, 114, 111, 117, 112>>,
      search_users |-> <<115, 101, 97, 114, 99, 104, 95, 117, 115, 101, 114,
                         115>>,
      search_results |-> <<115, 101, 97, 114, 99, 104, 95, 114, 101, 115,
                           117, 108, 116, 115>>,
      create_group |-> <<99, 114, 101, 97, 116, 101, 95, 103, 114, 111, 117,
                         112>>,
      update_group_list |-> <<117, 112, 100, 97, 116, 101, 95, 103, 114, 111,
                              117, 112, 95, 108, 105, 115, 116>>,
      server_response |-> <<115, 101, 114, 118, 101, 114, 95, 114, 101, 115,
                            112, 111, 110, 115, 101>>,
      chat |-> <<99, 104, 97, 116>>,
      system |-> <<115, 121, 115, 116, 101, 109>>,
      get_history |-> <<103, 101, 116, 95, 104, 105, 115, 116, 111, 114, 121>>,
      group_history_response |-> <<103, 114, 111, 117, 112, 95, 104, 105, 115,
                                   116, 111, 114, 121, 95, 114, 101, 115, 112,
                                   111, 110, 115, 101>>,
      upload_request |-> <<117, 112, 108, 111, 97, 100, 95, 114, 101, 113,
                           117, 101, 115, 116>>,
      upload_ready |-> <<117, 112, 108, 111, 97, 100, 95, 114, 101, 97, 100,
                         121>>,
      file_notification |-> <<102, 105, 108, 101, 95, 110, 111, 116, 105, 102,
                              105, 99, 97, 116, 105, 111, 110>> ]

\* A list of texts as a list of values.
Strs(ts) == [i \in 1..Len(ts) |-> JStr(ts[i])]

\* The dicts the creation functions of protocol.py build.
download_ready_response_dict(port, filename, filesize) ==
    JDict(<< Entry(Lit.type, JStr(Lit.download_ready)),
             Entry(Lit.port, JInt(port)),
             Entry(Lit.filename, JStr(filename)),
             Entry(Lit.filesize, JInt(filesize)) >>)

download_request_dict(unique_filename) ==
    JDict(<< Entry(Lit.type, JStr(Lit.download_request)),
             Entry(Lit.unique_filename, JStr(unique_filename)) >>)

leave_group_request_dict(group_name) ==
    JDict(<< Entry(Lit.type, JStr(Lit.leave_group)),
             Entry(Lit.group_name, JStr(group_name)) >>)

search_users_message_dict(query) ==
    JDict(<< Entry(Lit.type, JStr(Lit.search_users)),
             Entry(Lit.query, JStr(query)) >>)

search_results_message_dict(results) ==
    JDict(<< Entry(Lit.type, JStr(Lit.search_results)),
             Entry(Lit.results, JList(Strs(results))) >>)

group_message_request_dict(group_name, members) ==
    JDict(<< Entry(Lit.type, JStr(Lit.create_group)),
             Entry(Lit.group_name, JStr(group_name)),
             Entry(Lit.members, JList(Strs(members))) >>)

update_group_list_message_dict(gs) ==
    JDict(<< Entry(Lit.type, JStr(Lit.update_group_list)),
             Entry(Lit.groups, JList(Strs(gs))) >>)

server_response_dict(status, message) ==
    JDict(<< Entry(Lit.type, JStr(Lit.server_response)),
             Entry(Lit.status, JStr(status)),
             Entry(Lit.message, JStr(message)) >>)

chat_message_dict(nick, message_text, timestamp, group_name) ==
    JDict(<< Entry(Lit.type, JStr(Lit.chat)),
             Entry(Lit.nickname, JStr(nick)),
             Entry(Lit.message, JStr(message_text)),
             Entry(Lit.timestamp, JStr(timestamp)),
             Entry(Lit.group_name, JStr(group_name)) >>)

\* group_name is added only when it is given and not empty.
system_message_dict(message_text, timestamp, group_name) ==
    JDict(<< Entry(Lit.type, JStr(Lit.system)),
             Entry(Lit.message, JStr(message_text)),
             Entry(Lit.timestamp, JStr(timestamp)) >>
          \o IF group_name # << >>
             THEN << Entry(Lit.group_name, JStr(group_name)) >>
             ELSE << >>)

nickname_message_dict(nick) ==
    JDict(<< Entry(Lit.type, JStr(Lit.nickname)),
             Entry(Lit.nickname, JStr(nick)) >>)

client_message_dict(message_text, group_name) ==
    JDict(<< Entry(Lit.type, JStr(Lit.chat)),
             Entry(Lit.message, JStr(message_text)),
             Entry(Lit.group_name, JStr(group_name)) >>)

get_history_request_dict(group_name) ==
    JDict(<< Entry(Lit.type, JStr(Lit.get_history)),
             Entry(Lit.group_name, JStr(group_name)) >>)

group_history_response_dict(history) ==
    JDict(<< Entry(Lit.type, JStr(Lit.group_history_response)),
             Entry(Lit.history, JList(history)) >>)

upload_request_dict(group_name, filename, filesize) ==
    JDict(<< Entry(Lit.type, JStr(Lit.upload_request)),
             Entry(Lit.group_name, JStr(group_name)),
             Entry(Lit.filename, JStr(filename)),
             Entry(Lit.filesize, JInt(filesize)) >>)

upload_ready_response_dict(port, unique_filename) ==
    JDict(<< Entry(Lit.type, JStr(Lit.upload_ready)),
             Entry(Lit.port, JInt(port)),
             Entry(Lit.unique_filename, JStr(unique_filename)) >>)

file_notification_dict(sender, filename, unique_filename, group_name, timestamp) ==
    JDict(<< Entry(Lit.type, JStr(Lit.file_notification)),
             Entry(Lit.sender, JStr(sender)),
             Entry(Lit.filename, JStr(filename)),
             Entry(Lit.unique_filename, JStr(unique_filename)),
             Entry(Lit.group_name, JStr(group_name)),
             Entry(Lit.timestamp, JStr(timestamp)) >>)

\* ---- json.dumps(data), with its default ensure_ascii

RECURSIVE Digits(_)
Digits(n) ==
    IF n < 10 THEN << 48 + n >> ELSE Digits(n \div 10) \o << 48 + (n % 10) >>

IntText(n) == IF n < 0 THEN << 45 >> \o Digits(0 - n) ELSE Digits(n)

HexDigit(d) == IF d < 10 THEN 48 + d ELSE 87 + d

\* \uXXXX
U4(u) ==
    << 92, 117, HexDigit((u \div 4096) % 16), HexDigit((u \div 256) % 16),
       HexDigit((u \div 16) % 16), HexDigit(u % 16) >>

\* The characters a string literal cannot hold as they are: the quote, the
\* backslash and everything outside " ".."~".
NeedsEscape(c) == c = 34 \/ c = 92 \/ c < 32 \/ c > 126

\* The first position from i on whose character needs an escape, or the
\* position after the text: the run of plain characters before it is copied
\* at once.
EscapeRunEnd(x, i) ==
    CHOOSE p \in i..(Len(x) + 1) :
        /\ p > Len(x) \/ NeedsEscape(x[p])
        /\ \A q \in i..(p - 1) : ~ NeedsEscape(x[q])

\* An encoder that escapes nothing.
EscapeChar_Raw(c) == << c >>

\* The escape of such a character: a short escape, \uXXXX, or a surrogate
\* pair beyond the basic plane.
EscapeChar(c) ==
    IF c = 34 THEN << 92, 34 >>
    ELSE IF c = 92 THEN << 92, 92 >>
    ELSE IF c = 10 THEN << 92, 110 >>
    ELSE IF c = 13 THEN << 92, 114 >>
    ELSE IF c = 9 THEN << 92, 116 >>
    ELSE IF c = 8 THEN << 92, 98 >>
    ELSE IF c = 12 THEN << 92, 102 >>
    ELSE IF c < 65536 THEN U4(c)
    ELSE U4(55296 + ((c - 65536) \div 1024)) \o U4(56320 + ((c - 65536) % 1024))

\* The text s from i on with its special characters escaped.
RECURSIVE EscapedFrom(_, _)
EscapedFrom(s, i) ==
    CHOOSE y \in
        { SubSeq(s, i, p - 1)
          \o (IF p > Len(s) THEN << >>
              ELSE EscapeChar(s[p]) \o EscapedFrom(s, p + 1))
          : p \in { EscapeRunEnd(s, i) } } : TRUE

Escaped(s) == EscapedFrom(s, 1)

Quoted(s) == << 34 >> \o Escaped(s) \o << 34 >>

RECURSIVE dumps(_), dumpsItems(_), dumpsEntries(_)
dumps(v) ==
    CASE v.kind = "str" -> Quoted(v.s)
      [] v.kind = "int" -> IntText(v.n)
      [] v.kind = "list" -> << 91 >> \o dumpsItems(v.l) \o << 93 >>
      [] v.kind = "dict" -> << 123 >> \o dumpsEntries(v.l) \o << 125 >>

dumpsItems(l) ==
    IF Len(l) = 0 THEN << >>
    ELSE dumps(Head(l))
         \o (IF Len(l) > 1 THEN << 44, 32 >> ELSE << >>)
         \o dumpsItems(Tail(l))

dumpsEntries(l) ==
    IF Len(l) = 0 THEN << >>
    ELSE Quoted(Head(l).k) \o << 58, 32 >> \o dumps(Head(l).v)
         \o (IF Len(l) > 1 THEN << 44, 32 >> ELSE << >>)
         \o dumpsEntries(Tail(l))

\* ---- str.encode('utf-8') and bytes.decode('utf-8')

Utf8(c) ==
    IF c < 128 THEN << c >>
    ELSE IF c < 2048 THEN << 192 + (c \div 64), 128 + (c % 64) >>
    ELSE IF c < 65536
    THEN << 224 + (c \div 4096), 128 + ((c \div 64) % 64), 128 + (c % 64) >>
    ELSE << 240 + (c \div 262144), 128 + ((c \div 4096) % 64),
            128 + ((c \div 64) % 64), 128 + (c % 64) >>

NonAscii(c) == c >= 128

\* The first position from i on that is not ASCII, or the position after x.
AsciiRunEnd(x, i) ==
    CHOOSE p \in i..(Len(x) + 1) :
        /\ p > Len(x) \/ NonAscii(x[p])
        /\ \A q \in i..(p - 1) : ~ NonAscii(x[q])

\* The bytes of the text from i on.
RECURSIVE encodeFrom(_, _)
encodeFrom(text, i) ==
    CHOOSE y \in
        { SubSeq(text, i, p - 1)
          \o (IF p > Len(text) THEN << >>
              ELSE Utf8(text[p]) \o encodeFrom(text, p + 1))
          : p \in { AsciiRunEnd(text, i) } } : TRUE

encode(text) == encodeFrom(text, 1)

\* The byte at i continues a character.
Cont(b, i) == i <= Len(b) /\ b[i] >= 128 /\ b[i] < 192

\* The text of the bytes from i on, after the characters acc: a set with
\* the text, or with nothing when the bytes are not UTF-8.
RECURSIVE decode(_, _, _)
decode(b, i, acc) ==
    UNION {
      IF p > Len(b) THEN { acc \o SubSeq(b, i, p - 1) }
      ELSE IF b[p] >= 194 /\ b[p] < 224 /\ Cont(b, p + 1)
      THEN decode(b, p + 2, (acc \o SubSeq(b, i, p - 1))
                \o << (b[p] - 192) * 64 + (b[p + 1] - 128) >>)
      ELSE IF b[p] >= 224 /\ b[p] < 240 /\ Cont(b, p + 1) /\ Cont(b, p + 2)
      THEN decode(b, p + 3, (acc \o SubSeq(b, i, p - 1))
                \o << (b[p] - 224) * 4096 + (b[p + 1] - 128) * 64
                      + (b[p + 2] - 128) >>)
      ELSE IF /\ b[p] >= 240 /\ b[p] < 245
              /\ Cont(b, p + 1) /\ Cont(b, p + 2) /\ Cont(b, p + 3)
      THEN decode(b, p + 4, (acc \o SubSeq(b, i, p - 1))
                \o << (b[p] - 240) * 262144 + (b[p + 1] - 128) * 4096
                      + (b[p + 2] - 128) * 64 + (b[p + 3] - 128) >>)
      ELSE { }
      : p \in { AsciiRunEnd(b, i) } }

\* ---- json.loads(text)

\* The outcome of a scan is a set: the value with the position after it,
\* or nothing when the text is not valid.
Scanned(v, pos) == { [v |-> v, pos |-> pos] }

ScanError == { }

RECURSIVE SkipWs(_, _)
SkipWs(x, i) ==
    IF i <= Len(x) /\ x[i] \in {32, 9, 10, 13} THEN SkipWs(x, i + 1) ELSE i

HexVal(c) ==
    IF c >= 48 /\ c <= 57 THEN c - 48
    ELSE IF c >= 97 /\ c <= 102 THEN c - 87
    ELSE IF c >= 65 /\ c <= 70 THEN c - 55
    ELSE 0 - 1

\* The number written by the four hexadecimal digits at i, or -1.
ParseU4(x, i) ==
    IF i + 3 > Len(x) THEN 0 - 1
    ELSE IF \E j \in i..(i + 3) : HexVal(x[j]) < 0 THEN 0 - 1
    ELSE HexVal(x[i]) * 4096 + HexVal(x[i + 1]) * 256
         + HexVal(x[i + 2]) * 16 + HexVal(x[i + 3])

\* The character an escape letter stands for, or -1.
Unescape(e) ==
    IF e \in {34, 92, 47} THEN e
    ELSE IF e = 98 THEN 8
    ELSE IF e = 102 THEN 12
    ELSE IF e = 110 THEN 10
    ELSE IF e = 114 THEN 13
    ELSE IF e = 116 THEN 9
    ELSE 0 - 1

\* The characters that end a run inside a string literal.
Terminator(c) == c = 34 \/ c = 92 \/ c < 32

\* The first position from i on that ends a run of a string literal, or the
\* position after x.
LiteralRunEnd(x, i) ==
    CHOOSE p \in i..(Len(x) + 1) :
        /\ p > Len(x) \/ Terminator(x[p])
        /\ \A q \in i..(p - 1) : ~ Terminator(x[q])

\* The string literal whose opening quote precedes i, after the characters
\* acc; a control character inside it is an error.
RECURSIVE scanstring(_, _, _)
scanstring(x, i, acc) ==
    UNION {
      IF p > Len(x) THEN ScanError
      ELSE IF x[p] = 34 THEN Scanned(JStr(acc \o SubSeq(x, i, p - 1)), p + 1)
      ELSE IF x[p] < 32 THEN ScanError
      ELSE IF p + 1 > Len(x) THEN ScanError
      ELSE IF x[p + 1] = 117
      THEN UNION {
             IF u < 0 THEN ScanError
             ELSE IF u >= 55296 /\ u < 56320 /\ w >= 56320 /\ w < 57344
             THEN scanstring(x, p + 12, (acc \o SubSeq(x, i, p - 1))
                      \o << 65536 + (u - 55296) * 1024 + (w - 56320) >>)
             ELSE scanstring(x, p + 6, (acc \o SubSeq(x, i, p - 1)) \o << u >>)
             : u \in { ParseU4(x, p + 2) },
               w \in { IF p + 7 <= Len(x) /\ x[p + 6] = 92 /\ x[p + 7] = 117
                       THEN ParseU4(x, p + 8) ELSE 0 - 1 } }
      ELSE IF Unescape(x[p + 1]) < 0 THEN ScanError
      ELSE scanstring(x, p + 2, (acc \o SubSeq(x, i, p - 1))
               \o << Unescape(x[p + 1]) >>)
      : p \in { LiteralRunEnd(x, i) } }

\* The position after the digits from i on, with the number they make of n.
RECURSIVE ScanDigits(_, _, _)
ScanDigits(x, i, n) ==
    IF i <= Len(x) /\ x[i] >= 48 /\ x[i] <= 57
    THEN ScanDigits(x, i + 1, 10 * n + (x[i] - 48))
    ELSE [n |-> n, pos |-> i]

\* An integer: an optional sign, then 0 or digits that do not start with 0.
ScanInt(x, i) ==
    UNION {
      IF j > Len(x) \/ x[j] < 48 \/ x[j] > 57 THEN ScanError
      ELSE UNION { Scanned(JInt(IF j > i THEN 0 - d.n ELSE d.n), d.pos)
                   : d \in { IF x[j] = 48 THEN [n |-> 0, pos |-> j + 1]
                             ELSE ScanDigits(x, j, 0) } }
      : j \in { IF x[i] = 45 THEN i + 1 ELSE i } }

\* dict[k] = v: a key that is present keeps its place.
Put(l, k, v) ==
    IF \E j \in 1..Len(l) : l[j].k = k
    THEN [j \in 1..Len(l) |-> IF l[j].k = k THEN Entry(k, v) ELSE l[j]]
    ELSE Append(l, Entry(k, v))

RECURSIVE ScanValue(_, _), ScanItems(_, _, _), ScanEntries(_, _, _)
ScanValue(x, i0) ==
    UNION {
      IF i > Len(x) THEN ScanError
      ELSE IF x[i] = 34 THEN scanstring(x, i + 1, << >>)
      ELSE IF x[i] = 91
      THEN UNION { IF j <= Len(x) /\ x[j] = 93
                   THEN Scanned(JList(<< >>), j + 1)
                   ELSE ScanItems(x, j, << >>)
                   : j \in { SkipWs(x, i + 1) } }
      ELSE IF x[i] = 123
      THEN UNION { IF j <= Len(x) /\ x[j] = 125
                   THEN Scanned(JDict(<< >>), j + 1)
                   ELSE ScanEntries(x, j, << >>)
                   : j \in { SkipWs(x, i + 1) } }
      ELSE IF x[i] = 45 \/ (x[i] >= 48 /\ x[i] <= 57) THEN ScanInt(x, i)
      ELSE ScanError
      : i \in { SkipWs(x, i0) } }

\* The items of a list from i on, after the items acc.
ScanItems(x, i, acc) ==
    UNION { UNION {
      IF j > Len(x) THEN ScanError
      ELSE IF x[j] = 44 THEN ScanItems(x, j + 1, Append(acc, r.v))
      ELSE IF x[j] = 93 THEN Scanned(JList(Append(acc, r.v)), j + 1)
      ELSE ScanError
      : j \in { SkipWs(x, r.pos) } } : r \in ScanValue(x, i) }

\* The entries of a dict from i on, after the entries acc.
ScanEntries(x, i, acc) ==
    UNION {
      IF q > Len(x) \/ x[q] # 34 THEN ScanError
      ELSE UNION { UNION {
        IF c > Len(x) \/ x[c] # 58 THEN ScanError
        ELSE UNION { UNION {
          IF j > Len(x) THEN ScanError
          ELSE IF x[j] = 44
          THEN ScanEntries(x, j + 1, Put(acc, k.v.s, r.v))
          ELSE IF x[j] = 125
          THEN Scanned(JDict(Put(acc, k.v.s, r.v)), j + 1)
          ELSE ScanError
          : j \in { SkipWs(x, r.pos) } } : r \in ScanValue(x, c + 1) }
        : c \in { SkipWs(x, k.pos) } } : k \in scanstring(x, q + 1, << >>) }
      : q \in { SkipWs(x, i) } }

\* What receive_message returns: a value, or None.
Returned(v) == [ok |-> TRUE, v |-> v]

ReturnedNone == [ok |-> FALSE, v |-> JInt(0)]

\* receive_message, lines 100-103: the body is decoded and parsed as one
\* value with nothing after it; any error makes the call return None.
loads_decode(body) ==
    LET results ==
          UNION { UNION { { Returned(r.v) : r \in
                               { r \in ScanValue(text, 1) :
                                   SkipWs(text, r.pos) > Len(text) } }
                          : text \in decode(b, 1, << >>) }
                  : b \in { body } }
    IN CHOOSE y \in results \cup { ReturnedNone } :
           results # { } => y \in results

\* ---- struct.pack('!I', n) and struct.unpack('!I', b)[0]

pack(n) ==
    << (n \div 16777216) % 256, (n \div 65536) % 256, (n \div 256) % 256,
       n % 256 >>

unpack(b) == b[1] * 16777216 + b[2] * 65536 + b[3] * 256 + b[4]

\* ---- send_message and receive_message

\* send_message, line 59
json_bytes(m) == CHOOSE y \in { encode(text) : text \in { dumps(m) } } : TRUE

\* send_message, lines 61-65: header + json_bytes
Frame(m) ==
    CHOOSE y \in { pack(Len(body)) \o body : body \in { json_bytes(m) } } : TRUE

\* The frames of the messages ms, one after the other.
RECURSIVE Frames(_)
Frames(ms) == IF Len(ms) = 0 THEN << >> ELSE Frame(Head(ms)) \o Frames(Tail(ms))

\* send_message: the frame of m is written to the socket.
send_message(m) ==
    /\ Len(framesSent) < MaxFrames
    /\ ~ eof
    /\ stream' = stream \o Frame(m)
    /\ wrote' = wrote \o Frame(m)
    /\ framesSent' = Append(framesSent, m)
    /\ UNCHANGED << naming, sending, client, pc, nickname, user_groups, data, bcast, users, groups,
                    next_file_port, dbGroups, dbMembers, dbMessages, out,
                    nreq, clock, files, transfers, received, rcv, eof,
                    recvalls, causes >>

\* The number of bytes the recvall in progress was asked for.
Wanted == IF rcv.phase = "header" THEN 4 ELSE rcv.msglen

\* What recvall returns: the bytes (line 38), or None (line 36).
RecvallData(d) == [ok |-> TRUE, bytes |-> d]

RecvallNone == [ok |-> FALSE, bytes |-> << >>]

\* A call of recvall that asked for n bytes and returned ret.
Recvall(n, ret) == [n |-> n, ret |-> ret]

\* recvall whose recv returned b'' with these bytes read: the bytes read
\* so far are dropped.
recvall_closed_Prefix(d) == RecvallData(d)

recvall_closed(d) == RecvallNone

\* Why receive_message returned what it returned from a complete body.
Cause(ret) == IF ret.ok THEN "ok" ELSE "malformed"

\* receive_message: one sock.recv of a recvall loop returns k bytes.  When
\* they complete the header, its length is unpacked; a length of 0 makes the
\* second recvall return an empty bytearray at once, which is taken for a
\* closed connection; when the bytes complete the body, it is decoded and
\* parsed and the call returns.  A caller that gets None leaves its loop
\* (server.py 185, 229; network_client.py 183) and makes no further call.
recvall(k) ==
    /\ rcv.phase \in {"header", "body"}
    /\ k \in 1..Min(Wanted - Len(rcv.data), Len(stream))
    /\ stream' = SubSeq(stream, k + 1, Len(stream))
    /\ LET bytes == rcv.data \o SubSeq(stream, 1, k) IN
       IF Len(bytes) < Wanted
       THEN /\ rcv' = [rcv EXCEPT !.data = bytes]
            /\ UNCHANGED << received, recvalls, causes >>
       ELSE IF rcv.phase = "header" /\ unpack(bytes) > 0
       THEN /\ rcv' = [phase |-> "body", data |-> << >>, msglen |-> unpack(bytes)]
            /\ recvalls' = Append(recvalls, Recvall(4, RecvallData(bytes)))
            /\ UNCHANGED << received, causes >>
       ELSE IF rcv.phase = "header"
       THEN /\ rcv' = [phase |-> "closed", data |-> << >>, msglen |-> 0]
            /\ recvalls' = recvalls \o << Recvall(4, RecvallData(bytes)),
                                          Recvall(0, RecvallData(<< >>)) >>
            /\ received' = Append(received, ReturnedNone)
            /\ causes' = Append(causes, "malformed")
       ELSE /\ recvalls' = Append(recvalls, Recvall(Wanted, RecvallData(bytes)))
            /\ \E ret \in { loads_decode(bytes) } :
                  /\ rcv' = [phase |-> IF ret.ok THEN "header" ELSE "closed",
                              data |-> << >>, msglen |-> 0]
                  /\ received' = Append(received, ret)
                  /\ causes' = Append(causes, Cause(ret))
    /\ UNCHANGED << naming, sending, client, pc, nickname, user_groups, data, bcast, users, groups,
                    next_file_port, dbGroups, dbMembers, dbMessages, out,
                    nreq, clock, files, transfers, framesSent, eof, wrote >>

\* A peer writes bytes that are no frame of send_message: any program can
\* connect to the port.
SendRaw(b) ==
    /\ ~ eof
    /\ wrote = Frames(framesSent)
    /\ stream' = stream \o b
    /\ wrote' = wrote \o b
    /\ UNCHANGED << naming, sending, client, pc, nickname, user_groups, data, bcast, users, groups,
                    next_file_port, dbGroups, dbMembers, dbMessages, out,
                    nreq, clock, files, transfers, framesSent, received, rcv,
                    eof, recvalls, causes >>

\* The peer closes the socket, or its process ends.
PeerClose ==
    /\ ~ eof
    /\ eof' = TRUE
    /\ UNCHANGED << naming, sending, client, pc, nickname, user_groups, data, bcast, users, groups,
                    next_file_port, dbGroups, dbMembers, dbMessages, out,
                    nreq, clock, files, transfers, stream, framesSent,
                    received, rcv, wrote, recvalls, causes >>

\* receive_message: sock.recv returns b'' (every byte written was read and
\* the peer has closed); recvall returns None and so does receive_message.
\* The caller leaves its loop: no further call is made on this socket.
RecvEof ==
    /\ rcv.phase \in {"header", "body"}
    /\ eof
    /\ stream = << >>
    /\ recvalls' = Append(recvalls, Recvall(Wanted, recvall_closed(rcv.data)))
    /\ received' = Append(received, ReturnedNone)
    /\ causes' = Append(causes,
           IF rcv.phase = "header" /\ rcv.data = << >> THEN "eof"
           ELSE "midframe")
    /\ rcv' = [phase |-> "closed", data |-> << >>, msglen |-> 0]
    /\ UNCHANGED << naming, sending, client, pc, nickname, user_groups, data, bcast, users, groups,
                    next_file_port, dbGroups, dbMembers, dbMessages, out,
                    nreq, clock, files, transfers, stream, framesSent, eof,
                    wrote >>

\* ---- the frames of the codec runs

\* Field values: empty, plain, with a space, a quote, a backslash, a line
\* break, a Latin-1 letter, and a character beyond the basic plane.
Texts ==
    { << >>, << 97 >>, << 97, 32, 98 >>, << 34 >>, << 92, 110 >>, << 10 >>,
      << 233 >>, << 128512, 97 >> }

LongText == [i \in 1..LongLen |-> 97]

G == << 71 >>

Stamp == << 49, 50, 58, 51, 48 >>

\* One message or more of every creation function.
CodecMessages ==
    { nickname_message_dict(s) : s \in Texts }
    \cup { client_message_dict(LongText, G),
           client_message_dict(<< 233, 34 >>, << >>),
           chat_message_dict(<< 233 >>, << >>, Stamp, G),
           system_message_dict(<< 97, 32, 128512 >>, Stamp, G),
           system_message_dict(<< 97 >>, Stamp, << >>),
           server_response_dict(<< 111, 107 >>, << >>),
           update_group_list_message_dict(<< G, << 233 >> >>),
           update_group_list_message_dict(<< >>),
           group_message_request_dict(<< 92 >>, << << 97 >>, << >> >>),
           leave_group_request_dict(G),
           search_users_message_dict(<< >>),
           search_results_message_dict(<< << 34, 44 >> >>),
           get_history_request_dict(G),
           group_history_response_dict(
               << chat_message_dict(<< 97 >>, << 93, 125 >>, Stamp, G),
                  file_notification_dict(<< 97 >>, << 102 >>, << 49, 95, 102 >>,
                                         G, Stamp) >>),
           upload_request_dict(G, << 102, 46, 233 >>, 0),
           upload_ready_response_dict(12395, << 49, 95, 102 >>),
           download_request_dict(<< 49, 95, 102 >>),
           download_ready_response_dict(65535, << 102 >>, 4096),
           file_notification_dict(<< 233 >>, << 102 >>, << 49, 95, 102 >>, G, Stamp) }

\* ------------------------------------------------------------------- Next

\* Two clients; every request of the control plane.
Next ==
    \/ \E c \in TwoConns, raw \in RawNicknames : Register(c, raw)
    \/ \E c \in TwoConns : RegisterAbort(c)
    \/ \E c \in TwoConns : LoginPersist(c)
    \/ \E c \in TwoConns : JoinGroups(c)
    \/ \E c \in TwoConns : SendGroupList(c)
    \/ \E c \in TwoConns : BroadcastStep(c)
    \/ \E c \in TwoConns : BroadcastEnd(c)
    \/ \E c \in TwoConns, g \in GroupNames : ChatRecv(c, g)
    \/ \E c \in TwoConns, g \in GroupNames : LeaveRecv(c, g)
    \/ \E c \in TwoConns : LeaveLocked(c)
    \/ \E c \in TwoConns : LeaveReply(c)
    \/ \E c \in TwoConns, g \in GroupNames, ms \in SUBSET Nicknames :
          CreateRecv(c, g, ms)
    \/ \E c \in TwoConns : CreateLocked(c)
    \/ \E c \in TwoConns : Disconnect(c)

Spec == Init /\ [][Next]_vars

\* The control plane with history requests, requests that lack a field and
\* handlers that end on an exception.
NextFail ==
    \/ Next
    \/ \E c \in TwoConns, g \in GroupNames : GetHistory(c, g)
    \/ \E c \in TwoConns, g \in GroupNames : CreateNoMembers(c, g)
    \/ \E c \in TwoConns, g \in GroupNames : ChatRecvObject(c, g)
    \/ \E c \in TwoConns, raw \in RawNicknames : NicknameRecv(c, raw)
    \/ \E c \in TwoConns : HandlerRaises(c)

SpecFail == Init /\ [][NextFail]_vars

\* Three clients that register, chat in General and disconnect.
NextBcast ==
    \/ \E c \in Conns, raw \in {<<"a">>, <<"b">>} : Register(c, raw)
    \/ \E c \in Conns : LoginPersist(c)
    \/ \E c \in Conns : JoinGroups(c)
    \/ \E c \in Conns : SendGroupList(c)
    \/ \E c \in Conns : BroadcastStep(c)
    \/ \E c \in Conns : BroadcastEnd(c)
    \/ \E c \in Conns : nreq < MaxBcastChats /\ ChatRecv(c, "General")
    \/ \E c \in Conns : Disconnect(c)

SpecBcast == Init /\ [][NextBcast]_vars

\* One client; its transfers with every split of the byte streams.
NextStream ==
    \/ Register("c1", <<"a">>)
    \/ LoginPersist("c1")
    \/ JoinGroups("c1")
    \/ SendGroupList("c1")
    \/ BroadcastStep("c1")
    \/ BroadcastEnd("c1")
    \/ \E n \in 0..MaxFileLen :
          Len(transfers) < MaxStreamTransfers /\ UploadRequest("c1", "General", "f", n)
    \/ UploadNotify("c1")
    \/ \E key \in Keys \cup {DirKey} :
          Len(transfers) < MaxStreamTransfers /\ DownloadRequest("c1", key)
    \/ \E t \in Threads : SrvRecvListen(t)
    \/ \E t \in Threads : SrvRecvAccept(t)
    \/ \E t \in Threads, k \in 1..BufSize : SrvRecvChunk(t, k)
    \/ \E t \in Threads : SrvRecvEnd(t)
    \/ \E t \in Threads : CliSendConnect(t)
    \/ \E t \in Threads : CliSendChunk(t)
    \/ \E t \in Threads : CliSendClose(t)
    \/ \E t \in Threads : SrvSendListen(t)
    \/ \E t \in Threads : SrvSendAccept(t)
    \/ \E t \in Threads : SrvSendChunk(t)
    \/ \E t \in Threads : SrvSendClose(t)
    \/ \E t \in Threads : CliRecvConnect(t)
    \/ \E t \in Threads, k \in 1..BufSize : CliRecvChunk(t, k)
    \/ \E t \in Threads : CliRecvEnd(t)
    \/ Tick

SpecStream == Init /\ [][NextStream]_vars

\* One client; its uploads of files that hold fewer or more bytes than the
\* request declared, with every split of the byte streams.
NextSized ==
    \/ Register("c1", <<"a">>)
    \/ LoginPersist("c1")
    \/ JoinGroups("c1")
    \/ SendGroupList("c1")
    \/ BroadcastStep("c1")
    \/ BroadcastEnd("c1")
    \/ \E n, m \in 0..MaxFileLen :
          /\ Len(transfers) < MaxStreamTransfers
          /\ UploadRequestSized("c1", "General", "f", n, m)
    \/ UploadNotify("c1")
    \/ \E t \in Threads : SrvRecvListen(t)
    \/ \E t \in Threads : SrvRecvAccept(t)
    \/ \E t \in Threads, k \in 1..BufSize : SrvRecvChunk(t, k)
    \/ \E t \in Threads : SrvRecvEnd(t)
    \/ \E t \in Threads : CliSendConnect(t)
    \/ \E t \in Threads : CliSendChunk(t)
    \/ \E t \in Threads : CliSendClose(t)
    \/ Tick

SpecSized == Init /\ [][NextSized]_vars

\* Both clients of the transfer runs have logged in.
LoggedIn == \A c \in TwoConns : pc[c] \in {"active", "upload_notify"}

\* The nickname each client of the transfer runs registers.
XferNick(c) == IF c = "c1" THEN <<"a">> ELSE <<"b">>

\* The client that uploads and the client that downloads in the transfer runs.
Uploader == "c1"

Downloader == "c2"

\* File sizes of the transfer runs.
XferSizes == {BufSize}

\* What recv returns in the transfer runs: all that has arrived, up to the
\* buffer size.
Avail(t) == Min(BufSize, Len(transfers[t].wire))

\* Two clients; their uploads and downloads side by side.
NextXfer ==
    \/ \E c \in TwoConns :
          (\A d \in Earlier(c) : pc[d] = "active") /\ Register(c, XferNick(c))
    \/ \E c \in TwoConns : LoginPersist(c)
    \/ \E c \in TwoConns : JoinGroups(c)
    \/ \E c \in TwoConns : SendGroupList(c)
    \/ \E c \in TwoConns : BroadcastStep(c)
    \/ \E c \in TwoConns : BroadcastEnd(c)
    \/ \E n \in XferSizes :
          /\ LoggedIn
          /\ Len(transfers) < MaxTransfers
          /\ UploadRequest(Uploader, "General", "f", n)
    \/ UploadNotify(Uploader)
    \/ \E key \in Keys :
          /\ LoggedIn
          /\ Exists(key) => Len(transfers) < MaxTransfers
          /\ DownloadRequest(Downloader, key)
    \/ \E t \in Threads : SrvRecvListen(t)
    \/ \E t \in Threads : SrvRecvAccept(t)
    \/ \E t \in Threads : SrvRecvChunk(t, Avail(t))
    \/ \E t \in Threads : SrvRecvEnd(t)
    \/ \E t \in Threads : CliSendConnect(t)
    \/ \E t \in Threads : CliSendChunk(t)
    \/ \E t \in Threads : CliSendClose(t)
    \/ \E t \in Threads : SrvSendListen(t)
    \/ \E t \in Threads : SrvSendAccept(t)
    \/ \E t \in Threads : SrvSendChunk(t)
    \/ \E t \in Threads : SrvSendClose(t)
    \/ \E t \in Threads : CliRecvConnect(t)
    \/ \E t \in Threads : CliRecvChunk(t, Avail(t))
    \/ \E t \in Threads : CliRecvEnd(t)
    \/ Tick

SpecXfer == Init /\ [][NextXfer]_vars

\* A client stops reading its connection (and sends nothing more); the
\* socket buffer towards it is full.  Its handler waits in receive_message.
ClientStalls(c) ==
    /\ pc[c] = "active"
    /\ pc' = [pc EXCEPT ![c] = "stalled"]
    /\ UNCHANGED << nickname, user_groups, data, bcast, users, groups,
                    next_file_port, dbGroups, dbMembers, dbMessages, out,
                    nreq, xvars >>

\* Three clients: one uploads, one may stall, one chats and disconnects.
NextStall ==
    \/ \E c \in Conns : Register(c, << c >>)
    \/ \E c \in Conns : LoginPersist(c)
    \/ \E c \in Conns : JoinGroups(c)
    \/ \E c \in Conns : SendGroupList(c)
    \/ \E c \in Conns : BroadcastStep(c)
    \/ \E c \in Conns : BroadcastEnd(c)
    \/ ChatRecv("c3", "General")
    \/ Len(transfers) < MaxStallUploads /\ UploadRequest("c1", "General", "f", BufSize)
    \/ UploadNotify("c1")
    \/ Disconnect("c3")
    \/ ClientStalls("c2")

SpecStall == Init /\ [][NextStall]_vars

\* One client that keeps uploading empty files: the port counter on its way
\* past the port of the server itself.
NextPorts ==
    \/ Register("c1", <<"a">>)
    \/ LoginPersist("c1")
    \/ JoinGroups("c1")
    \/ SendGroupList("c1")
    \/ BroadcastStep("c1")
    \/ BroadcastEnd("c1")
    \/ Len(transfers) < MaxPortTransfers /\ UploadRequest("c1", "General", "f", 0)
    \/ UploadNotify("c1")

SpecPorts == Init /\ [][NextPorts]_vars

\* ------------------------------------------- two senders on one socket
\* send_message is called by handler threads without any lock of the
\* connection; sendall hands the bytes to the socket in as many send calls
\* as the socket buffer makes necessary.

\* The chat envelopes two handlers send to a common member.
SendMessages ==
    { chat_message_dict(<< 97 >>, << 104 >>, Stamp, G),
      chat_message_dict(<< 98 >>, << 105 >>, Stamp, G) }

\* send_message, lines 58-65, by the handler thread c: the frame is built
\* and sendall begins.
SendallBegin(c, m) ==
    /\ sending[c] = << >>
    /\ Len(framesSent) < MaxFrames
    /\ framesSent' = Append(framesSent, m)
    /\ sending' = [sending EXCEPT ![c] = Frame(m)]
    /\ UNCHANGED << pc, nickname, user_groups, data, bcast, users, groups,
                    next_file_port, dbGroups, dbMembers, dbMessages, out,
                    nreq, clock, files, transfers, stream, received, rcv, eof,
                    wrote, recvalls, causes, naming, client >>

\* sendall, one send call of thread c: the socket takes the k next bytes.
SendallStep(c, k) ==
    /\ sending[c] # << >>
    /\ k \in 1..Len(sending[c])
    /\ wrote' = wrote \o SubSeq(sending[c], 1, k)
    /\ stream' = stream \o SubSeq(sending[c], 1, k)
    /\ sending' = [sending EXCEPT ![c] = SubSeq(@, k + 1, Len(@))]
    /\ UNCHANGED << pc, nickname, user_groups, data, bcast, users, groups,
                    next_file_port, dbGroups, dbMembers, dbMessages, out,
                    nreq, clock, files, transfers, framesSent, received, rcv,
                    eof, recvalls, causes, naming, client >>

\* Two handler threads sending to one connection; a send call takes the
\* whole rest of the frame or SendPiece bytes of it.
NextSend ==
    \/ \E c \in TwoConns, m \in SendMessages : SendallBegin(c, m)
    \/ \E c \in TwoConns :
          \E k \in { Len(sending[c]), Min(Len(sending[c]), SendPiece) } :
              SendallStep(c, k)

SpecSend == Init /\ [][NextSend]_vars

\* ------------------------------------------------- the uploading client

\* dict.pop(key, None) of upload_requests: the value, 0 for None.
Popped(d, key) == IF key \in DOMAIN d THEN d[key] ELSE 0

\* dict.pop(key, None) of upload_requests: the dict after it.
WithoutKey(d, key) == [k \in DOMAIN d \ {key} |-> d[k]]

\* NetworkThread.send_upload_request, lines 225-236: the path is stored
\* under a key made from the client's reading of the clock, and the request
\* is sent.
CliUploadAsk ==
    /\ pc[Uploader] = "active"
    /\ client.asked < MaxAsks
    /\ client' = [client EXCEPT
          !.asked = @ + 1,
          !.upload_requests = StoreFile(@, << clock, "f" >>, client.asked + 1)]
    /\ UNCHANGED << pc, nickname, user_groups, data, bcast, users, groups,
                    next_file_port, dbGroups, dbMembers, dbMessages, out,
                    nreq, clock, files, transfers, sockvars, naming, sending >>

\* NetworkThread.run, lines 189-198: the next upload_ready is read; the path
\* stored under its key, if any, is given to a sender thread.
CliUploadReady ==
    /\ Len(client.started) < Len(transfers)
    /\ LET t == Len(client.started) + 1
           key == transfers[t].key
       IN /\ CopiesIn(create_upload_ready_response(transfers[t].port, key),
                      out[Uploader]) >= 1
          /\ client' = [client EXCEPT
                !.started = Append(@, Popped(client.upload_requests, key)),
                !.upload_requests = WithoutKey(@, key)]
    /\ UNCHANGED << pc, nickname, user_groups, data, bcast, users, groups,
                    next_file_port, dbGroups, dbMembers, dbMessages, out,
                    nreq, clock, files, transfers, sockvars, naming, sending >>

\* One client asking for uploads of files named f, and the server serving
\* its requests in their order.
NextClient ==
    \/ Register(Uploader, <<"a">>)
    \/ LoginPersist(Uploader)
    \/ JoinGroups(Uploader)
    \/ SendGroupList(Uploader)
    \/ BroadcastStep(Uploader)
    \/ BroadcastEnd(Uploader)
    \/ CliUploadAsk
    \/ Len(transfers) < client.asked /\ UploadRequest(Uploader, "General", "f", BufSize)
    \/ UploadNotify(Uploader)
    \/ CliUploadReady
    \/ Tick

SpecClient == Init /\ [][NextClient]_vars

\* ------------------------------------------------------- names of files
\* File names and keys as texts, letter by letter.

\* os.path.basename: what follows the last "/".
RECURSIVE basename(_)
basename(p) ==
    IF p = << >> THEN << >>
    ELSE IF 47 \in { p[i] : i \in 1..Len(p) }
         THEN basename(Tail(p))
         ELSE p

\* str.split(sep): the pieces between the separators, one more than there
\* are separators.
RECURSIVE split(_, _)
split(s, sep) ==
    IF s = << >> THEN << << >> >>
    ELSE LET r == split(Tail(s), sep) IN
         IF Head(s) = sep THEN << << >> >> \o r
         ELSE << << Head(s) >> \o Head(r) >> \o Tail(r)

\* sep.join(parts)
RECURSIVE join(_, _)
join(sep, parts) ==
    IF parts = << >> THEN << >>
    ELSE IF Len(parts) = 1 THEN parts[1]
    ELSE parts[1] \o << sep >> \o join(sep, Tail(parts))

\* server.py line 283: f"{int(time.time())}_{os.path.basename(filename)}"
unique_filename_of(t, filename) == IntText(t) \o << 95 >> \o basename(filename)

\* A reconstruction that keeps the piece after the timestamp only.
KeptPieces_Second(parts) == << parts[2] >>

\* server.py line 319, the slice [1:]: every piece but the first.
KeptPieces(parts) == Tail(parts)

\* server.py line 319: "_".join(unique_filename.split('_')[1:])
original_filename_of(unique_filename) ==
    join(95, KeptPieces(split(unique_filename, 95)))

\* The file names of upload requests: texts of "a", "_" and "/".
RECURSIVE TextsUpTo(_)
TextsUpTo(n) ==
    IF n = 0 THEN { << >> }
    ELSE LET shorter == TextsUpTo(n - 1) IN
         shorter \cup { Append(t, ch) : t \in shorter, ch \in {97, 95, 47} }

\* Values of int(time.time()): of one digit and of two.
Stamps == {0, 7, 12}

\* handle_upload_request, line 283: the key is made from the file name.
UploadName(filename, t) ==
    /\ naming' = [ phase |-> "uploaded", filename |-> filename,
                   unique_filename |-> unique_filename_of(t, filename),
                   original_filename |-> << >> ]
    /\ UNCHANGED << pc, nickname, user_groups, data, bcast, users, groups,
                    next_file_port, dbGroups, dbMembers, dbMessages, out,
                    nreq, clock, files, transfers, sockvars, sending,
                    client >>

\* handle_download_request, lines 319-326: the name announced for that key.
DownloadName ==
    /\ naming.phase = "uploaded"
    /\ naming' = [ naming EXCEPT
                     !.phase = "announced",
                     !.original_filename = original_filename_of(naming.unique_filename) ]
    /\ UNCHANGED << pc, nickname, user_groups, data, bcast, users, groups,
                    next_file_port, dbGroups, dbMembers, dbMessages, out,
                    nreq, clock, files, transfers, sockvars, sending,
                    client >>

\* File names from the upload request to the download reply.
NextName ==
    \/ \E filename \in TextsUpTo(MaxNameLen), t \in Stamps : UploadName(filename, t)
    \/ DownloadName

SpecName == Init /\ [][NextName]_vars

\* One socket: a sender writing frames and a receiver reading them, each
\* recv returning one byte, two bytes, or all it may.
NextCodec ==
    \/ \E m \in CodecMessages : send_message(m)
    \/ \E k \in {1, 2, Min(Wanted - Len(rcv.data), Len(stream))} : recvall(k)

SpecCodec == Init /\ [][NextCodec]_vars

\* What a peer may write that send_message would not: a body that is no
\* JSON text, a body that is no UTF-8, a length of 0, half a header, and a
\* header announcing more than follows.
RawWrites ==
    { pack(2) \o << 123, 120 >>, pack(1) \o << 255 >>, pack(0),
      << 0, 0 >>, pack(5) \o << 123 >> }

WireMessages ==
    { nickname_message_dict(<< >>), nickname_message_dict(<< 233 >>),
      leave_group_request_dict(G) }

\* One socket whose peer writes frames or other bytes and closes at any
\* moment; each recv returns one byte, two bytes, or all it may.
NextWire ==
    \/ \E m \in WireMessages : send_message(m)
    \/ \E b \in RawWrites : SendRaw(b)
    \/ PeerClose
    \/ \E k \in {1, 2, Min(Wanted - Len(rcv.data), Len(stream))} : recvall(k)
    \/ RecvEof

SpecWire == Init /\ [][NextWire]_vars

\* ================================================================== claims

Members(g) == SeqToSet(groups[g])

Live == SeqToSet(users)

\* No login, create_group or leave_group handler is part-way through.
Quiescent ==
    \A c \in Conns : pc[c] \in {"reg", "active", "bcast", "closed"}

\* C1: in every reachable state no two sessions of the live session set
\* (ChatServer.users) hold the same nickname, so of the registrations that
\* carry one nickname at most one is answered ok while the others are live.
C1_UniqueNicknames ==
    \A c \in Live, d \in Live : c # d => nickname[c] # nickname[d]

\* C2: a chat envelope is never written to the connection of the session
\* whose chat message produced it.
C2_NoEcho ==
    \A c \in Conns : \A m \in BagToSet(out[c]) :
        m.type = "chat" => m.src # c

\* C2 witness: a member of a group has sent a chat message to it, the
\* broadcast has run to its end and another member was sent the envelope.
C2_Witness ==
    \E c \in Conns, d \in Conns :
        /\ c # d
        /\ pc[d] = "active"
        /\ data[d].type = "chat"
        /\ data[d].group_name \in DOMAIN groups
        /\ d \in Members(data[d].group_name)
        /\ \E m \in BagToSet(out[c]) : m.type = "chat" /\ m.src = d

\* C3: when a chat broadcast has gone through the member list, every other
\* session that was a member of the group when the broadcast began and still
\* is one has been sent the envelope exactly once.
C3_ExactlyOnce ==
    \A c \in Conns :
        ( /\ pc[c] = "bcast"
          /\ bcast[c].idx > Len(groups[bcast[c].group]) )
        => \A m \in (bcast[c].start \cap Members(bcast[c].group)) \ {c} :
              CopiesIn(bcast[c].msg, out[m]) = 1

\* C4: a leave_group request naming General changes neither the in-memory
\* membership nor the stored membership and sends nothing; and every session
\* of the live session set is a member of General, in memory and in storage.
C4_GeneralKept ==
    /\ [][ \A c \in Conns :
             LeaveRecv(c, "General") =>
                 UNCHANGED << groups, users, dbGroups, dbMembers, dbMessages,
                              out, pc >> ]_vars
    /\ [] ( \A c \in Live :
              /\ c \in Members("General")
              /\ <<nickname[c], "General">> \in dbMembers )

\* C4 witness: a session has asked to leave General, the request has been
\* handled and the session is still a member.
C4_Witness ==
    \E c \in Conns :
        /\ pc[c] = "active"
        /\ data[c].type = "leave_group"
        /\ data[c].group_name = "General"
        /\ c \in Members("General")

\* No two connections have registered the same nickname.
DistinctNicknames ==
    \A c \in Conns, d \in Conns :
        (c # d /\ nickname[c] = nickname[d]) => nickname[c] = << >>

\* C6: in a quiescent state, the registered nicknames being distinct, a live
\* session is a member of an in-memory group exactly if storage records its
\* nickname as a member of that group.
C6_MemoryMatchesStorage ==
    (Quiescent /\ DistinctNicknames) =>
        \A c \in Live : \A g \in DOMAIN groups :
            c \in Members(g) <=> <<nickname[c], g>> \in dbMembers

\* C7: a create_group request whose name is taken in storage changes no
\* in-memory group, no stored group or membership, and sends no message.
C7_TakenNameNoEffect ==
    [][ \A c \in Conns, g \in GroupNames, ms \in SUBSET Nicknames :
          (g \in dbGroups /\ CreateRecv(c, g, ms)) =>
              UNCHANGED << groups, users, dbGroups, dbMembers, dbMessages,
                           out, pc >> ]_vars

\* C7 witness: a session asked for a group Dev that already existed; the
\* request has been handled and the session is no member of Dev.
C7_Witness ==
    \E c \in Conns :
        /\ pc[c] = "active"
        /\ data[c].type = "create_group"
        /\ data[c].group_name = "Dev"
        /\ "Dev" \in dbGroups
        /\ "Dev" \in DOMAIN groups
        /\ <<nickname[c], "Dev">> \notin dbMembers

\* ---- C5

\* C5: the transfers are kept in the order in which their ports were
\* allocated; every port is strictly greater than every port allocated
\* before it (so all are pairwise distinct, whether or not the earlier
\* transfer is still in flight) and the counter is beyond all of them.
C5_PortsIncreasing ==
    /\ \A i, j \in Threads : i < j => transfers[i].port < transfers[j].port
    /\ \A i \in Threads : transfers[i].port < next_file_port

\* Three ports allocated, to uploads and downloads of different sessions,
\* the first transfer still in flight.
C5_Witness ==
    /\ Len(transfers) = 3
    /\ \E i, j \in Threads : /\ transfers[i].kind = "upload"
                             /\ transfers[j].kind = "download"
                             /\ transfers[i].owner # transfers[j].owner
    /\ transfers[1].lpc # "done"

\* ---- C8

\* The sender of transfer t has streamed its whole source and closed, the
\* source having the size that was declared to the receiver.
StreamedAll(t) ==
    /\ transfers[t].eof
    /\ Len(transfers[t].sent) = transfers[t].filesize
    /\ IF transfers[t].kind = "upload"
       THEN transfers[t].cpc = "done" /\ transfers[t].sent = transfers[t].src
       ELSE transfers[t].lpc = "done"

\* The receiver of transfer t has terminated.
ReceiverDone(t) ==
    IF transfers[t].kind = "upload"
    THEN transfers[t].lpc = "done"
    ELSE transfers[t].cpc = "done"

\* C8: when the sender of a transfer has streamed N bytes, N being the
\* declared size, and the receiver has terminated, the receiver has taken
\* exactly these N bytes, in order, whatever sizes its recv calls returned;
\* for an upload whose key no other upload shares, they are the content of
\* the stored file.
C8_ExactBytes ==
    \A t \in Threads :
        (StreamedAll(t) /\ ReceiverDone(t)) =>
            /\ transfers[t].got = transfers[t].sent
            /\ transfers[t].bytes_received = transfers[t].filesize
            /\ ( /\ transfers[t].kind = "upload"
                 /\ \A u \in Threads \ {t} :
                       transfers[u].kind = "upload"
                           => transfers[u].key # transfers[t].key )
               => files[transfers[t].key] = transfers[t].src

\* An upload and a download of the largest file, both received one byte at
\* a time.
C8_Witness ==
    \E t, d \in Threads :
        /\ transfers[t].kind = "upload" /\ transfers[d].kind = "download"
        /\ \A x \in {t, d} : /\ StreamedAll(x) /\ ReceiverDone(x)
                             /\ transfers[x].filesize = MaxFileLen
                             /\ transfers[x].recvs = MaxFileLen
        /\ transfers[d].got = transfers[t].src

\* ---- C9

\* C9: a download requested by another session for the key of an upload
\* that had completed with N bytes is announced with filesize N, and when
\* its sender has reached the end of the file it has streamed the uploaded
\* bytes.
C9_DownloadAfterUpload ==
    \A d \in Threads : \A u \in transfers[d].after :
        transfers[d].owner # transfers[u].owner =>
            /\ transfers[d].filesize = transfers[u].filesize
            /\ (transfers[d].lpc = "done" /\ transfers[d].cpc # "refused")
                   => transfers[d].sent = transfers[u].src

\* ---- C10

\* The messages written whose receive_message call has not returned.
Pending == SubSeq(framesSent, Len(received) + 1, Len(framesSent))

\* C10: the i-th call of receive_message returns the i-th message written
\* by send_message, equal field by field; between calls the socket holds
\* exactly the frames of the messages not yet returned, and during a call
\* the length unpacked from the header is that of the body being read, of
\* which nothing beyond has been taken.
C10_FrameRoundTrip ==
    /\ Len(received) <= Len(framesSent)
    /\ \A i \in 1..Len(received) : received[i] = Returned(framesSent[i])
    /\ rcv.phase = "header" => rcv.data \o stream = Frames(Pending)
    /\ rcv.phase = "body" =>
          /\ Len(Pending) > 0
          /\ rcv.msglen = Len(json_bytes(Head(Pending)))
          /\ rcv.data \o stream
                = json_bytes(Head(Pending)) \o Frames(Tail(Pending))

\* Two frames on one stream, both returned: a message with an empty field,
\* then one with a character beyond the basic plane.
C10_Witness ==
    /\ Len(received) = 2
    /\ stream = << >>
    /\ received[1] = Returned(nickname_message_dict(<< >>))
    /\ received[2] = Returned(nickname_message_dict(<< 128512, 97 >>))

\* ---- C11

\* The bytes the calls of recvall returned, in order.
RECURSIVE Flat(_)
Flat(rs) == IF Len(rs) = 0 THEN << >> ELSE Head(rs).ret.bytes \o Flat(Tail(rs))

\* C11: however the bytes written are split into reads, a call of recvall
\* that returns data returns exactly the n bytes asked for, and the data of
\* the calls, the bytes of the call in progress and the bytes not yet read
\* are, in this order, the bytes written; a call returns None only when the
\* peer has closed with fewer than n bytes left for it, and then it hands
\* out none of the bytes it had read.
C11_RecvallExact ==
    /\ \A i \in 1..Len(recvalls) :
          IF recvalls[i].ret.ok
          THEN Len(recvalls[i].ret.bytes) = recvalls[i].n
          ELSE /\ recvalls[i].ret = RecvallNone
               /\ i = Len(recvalls)
               /\ eof
               /\ Len(wrote) - Len(Flat(recvalls)) < recvalls[i].n
    /\ \E got \in { Flat(recvalls) } :
          IF recvalls # << >> /\ ~ recvalls[Len(recvalls)].ret.ok
          THEN /\ stream = << >>
               /\ Len(got) <= Len(wrote)
               /\ got = SubSeq(wrote, 1, Len(got))
          ELSE got \o rcv.data \o stream = wrote

\* C11 witness: a frame was read whole, header and body, and the peer then
\* closed in the middle of the next body: the last recvall had read some
\* bytes of it and returned None.
C11_Witness ==
    /\ Len(recvalls) = 4
    /\ recvalls[2].ret.ok
    /\ recvalls[2].n > 4
    /\ recvalls[3].ret.ok
    /\ ~ recvalls[4].ret.ok
    /\ recvalls[4].n > 1
    /\ Len(wrote) - Len(Flat(recvalls)) > 0

\* ---- C12

\* What receive_message returns when the peer has closed on a frame
\* boundary: recvall(sock, 4) returns None and line 92 returns None.
CleanEndOfStream == ReturnedNone

\* C12: a call of receive_message that failed on a malformed payload or on
\* a connection closed in the middle of a frame returns something else than
\* a call that met a clean end of stream.
C12_FailureDistinct ==
    \A i \in 1..Len(received) :
        causes[i] \in {"malformed", "midframe"} => received[i] # CleanEndOfStream

\* ---- C13

\* C13: a registration whose nickname is empty once stripped, or is the
\* nickname of a stored session, writes one server_response with status
\* error to its connection and nothing to any other, and closes the
\* connection; it stores no session, changes no group and writes nothing to
\* storage.  Nothing more is ever written to a connection closed in
\* registration.
C13_RefusedRegistration ==
    /\ [][ \A c \in Conns, raw \in RawNicknames :
             ( /\ Register(c, raw)
               /\ \/ strip(raw) = << >>
                  \/ \E u \in Live : nickname[u] = strip(raw) )
             => /\ out' = [out EXCEPT ![c] =
                             out[c] (+) SetToBag({create_server_response("error")})]
                /\ pc'[c] = "closed"
                /\ UNCHANGED << users, groups, dbGroups, dbMembers,
                                dbMessages, nickname >> ]_vars
    /\ [] \A c \in Conns :
             (pc[c] = "closed" /\ nickname[c] = << >>)
             => /\ c \notin Live
                /\ \A g \in DOMAIN groups : c \notin Members(g)
                /\ out[c] \in { EmptyBag,
                                SetToBag({create_server_response("error")}) }

\* C13 witness: a connection was refused and closed with its one error
\* response while another session is stored and a member of General.
C13_Witness ==
    \E c, d \in Conns :
        /\ pc[c] = "closed"
        /\ nickname[c] = << >>
        /\ out[c] = SetToBag({create_server_response("error")})
        /\ users = << d >>
        /\ d \in Members("General")
        /\ dbMembers = { << nickname[d], "General" >> }

\* ---- C14

\* C14: a connection whose handler has run its cleanup is not in the
\* session set nor a member of any group, in that state and in every later
\* one, whatever the other sessions do and at whichever step the handler
\* ended; the handler of a closed connection takes no further step; and a
\* connection that ends in registration removes no session and no member.
C14_CleanupOnce ==
    /\ [] \A c \in Conns :
             pc[c] = "closed" =>
                 /\ c \notin Live
                 /\ \A g \in DOMAIN groups : c \notin Members(g)
    /\ [][ \A c \in Conns :
             /\ pc[c] = "closed" => pc'[c] = "closed"
             /\ (pc[c] = "reg" /\ pc'[c] = "closed")
                    => UNCHANGED << users, groups >> ]_vars

\* C14 witness: a session that logged in has been cleaned up and another
\* session has created a group naming the nickname of the closed one: the
\* group exists in memory, storage lists the closed session's nickname for
\* it, and its only member is the creator.
C14_Witness ==
    \E c, d \in Conns :
        /\ pc[c] = "closed"
        /\ nickname[c] # << >>
        /\ nickname[c] # nickname[d]
        /\ << nickname[c], "General" >> \in dbMembers
        /\ pc[d] = "active"
        /\ data[d].type = "create_group"
        /\ nickname[c] \in data[d].members
        /\ "Dev" \in DOMAIN groups
        /\ << nickname[c], "Dev" >> \in dbMembers
        /\ groups["Dev"] = << d >>

\* ---- C15

\* C15: the in-memory registry always holds a group named General, no step
\* takes a group out of the registry, and every session of the session set
\* is a member of General for as long as it is in the set.
C15_GeneralPermanent ==
    /\ [] ( /\ "General" \in DOMAIN groups
            /\ \A c \in Live : c \in Members("General") )
    /\ [][ DOMAIN groups \subseteq DOMAIN groups' ]_vars

\* C15 witness: two sessions are stored, a second group exists, one of them
\* has left that group, and both are members of General.
C15_Witness ==
    \E c, d \in Conns :
        /\ users = << c, d >>
        /\ pc[c] = "active"
        /\ pc[d] = "active"
        /\ "Dev" \in DOMAIN groups
        /\ data[d].type = "leave_group"
        /\ data[d].group_name = "Dev"
        /\ groups["Dev"] = << c >>
        /\ groups["General"] = << c, d >>

\* ---- C16

\* C16: no two uploads that were accepted have the same storage key.
C16_UniqueKeys ==
    \A i, j \in Threads :
        ( /\ i # j
          /\ transfers[i].kind = "upload"
          /\ transfers[j].kind = "upload" )
        => transfers[i].key # transfers[j].key

\* ---- C17

\* A thread is walking the member list of group g: its loop has visited a
\* member and has not ended.
Traversing(c, g) ==
    /\ pc[c] \in {"announce", "bcast"}
    /\ bcast[c].group = g
    /\ bcast[c].idx > 1

\* C17: while a broadcast walks the member list of a group, no step adds a
\* member to the group or removes one from it.
C17_TraversalLocked ==
    [][ \A c \in Conns : \A g \in DOMAIN groups :
          Traversing(c, g) => groups'[g] = groups[g] ]_vars

\* ---- C18

\* A step of a transfer listener thread of the server.
ListenerStep ==
    \E t \in Threads :
        \/ SrvRecvListen(t)
        \/ SrvRecvAccept(t)
        \/ \E k \in 1..BufSize : SrvRecvChunk(t, k)
        \/ SrvRecvEnd(t)
        \/ SrvSendListen(t)
        \/ SrvSendAccept(t)
        \/ SrvSendChunk(t)
        \/ SrvSendClose(t)

\* C18: a step of a transfer listener thread changes nothing of the
\* registry (sessions, groups, port counter), of the handlers' positions or
\* of what was written to the chat connections; and whatever the listener
\* threads are doing or waiting for, a handler waiting for a request can
\* take an upload request (allocating a port) or a chat message, and a new
\* connection can register.
C18_ListenersApart ==
    /\ [][ ListenerStep => UNCHANGED << pc, nickname, user_groups, data, bcast,
                                        users, groups, next_file_port, dbGroups,
                                        dbMembers, dbMessages, out >> ]_vars
    /\ [] \A c \in TwoConns :
             /\ (pc[c] = "active" /\ Len(transfers) < MaxTransfers)
                    => ENABLED UploadRequest(c, "General", "f", BufSize)
             /\ pc[c] = "active" => ENABLED ChatRecv(c, "General")
             /\ (pc[c] = "reg" /\ \A d \in Earlier(c) : pc[d] # "reg")
                    => ENABLED Register(c, << "a" >>)

\* C18 witness: the first listener thread is still blocked in accept, its
\* client never having connected, while two later ports were allocated, one
\* of them for the other session, and a later transfer has run to its end.
C18_Witness ==
    /\ Len(transfers) = 3
    /\ transfers[1].lpc = "listening"
    /\ transfers[1].cpc = "idle"
    /\ \E t \in {2, 3} : transfers[t].owner # transfers[1].owner
    /\ \E t \in {2, 3} : transfers[t].lpc = "done" /\ transfers[t].cpc = "done"

\* ---- C19

\* C19: a chat message naming a group that is not in the in-memory registry
\* stores no message, writes nothing to any connection, starts no broadcast
\* and leaves the sender's handler waiting for the next request; sessions,
\* groups and stored memberships are as before.
C19_UnknownGroupDropped ==
    [][ \A c \in Conns, g \in GroupNames :
          (ChatRecv(c, g) /\ g \notin DOMAIN groups) =>
              /\ pc'[c] = "active"
              /\ UNCHANGED << dbMessages, dbMembers, dbGroups, out, bcast,
                              groups, users, pc >> ]_vars

\* C19 witness: a session has sent a chat message to Dev while Dev was
\* stored by another session's create_group but not yet made in memory;
\* the message was handled, nothing is stored and no broadcast runs.
C19_Witness ==
    \E c, d \in Conns :
        /\ pc[c] = "active"
        /\ data[c].type = "chat"
        /\ data[c].group_name = "Dev"
        /\ "Dev" \notin DOMAIN groups
        /\ "Dev" \in dbGroups
        /\ pc[d] = "create_lock"
        /\ dbMessages = << >>
        /\ bcast[c] = NoBcast

\* ---- C20

\* The handler of c is serving a leave_group request for group g.
Leaving(c, g) ==
    /\ pc[c] \in {"leave_lock", "leave_reply"}
    /\ data[c].group_name = g

\* C20: no step of the handling of a leave_group or get_history request
\* that names a group existing neither in memory nor in storage writes to
\* any connection or changes sessions, groups or stored data.
C20_UnknownTargetIgnored ==
    [][ \A c \in Conns, g \in GroupNames :
          ( /\ g \notin DOMAIN groups
            /\ g \notin dbGroups
            /\ \/ GetHistory(c, g)
               \/ LeaveRecv(c, g)
               \/ Leaving(c, g) /\ (LeaveLocked(c) \/ LeaveReply(c)) )
          => UNCHANGED << out, users, groups, dbGroups, dbMembers,
                          dbMessages >> ]_vars

\* ---- C21

\* C21: a download_request for a key under which no content is stored
\* writes nothing to any connection, leaves the port counter as it is,
\* starts no thread and leaves the requester waiting for its next request.
C21_MissingKeyIgnored ==
    [][ \A c \in Conns, key \in Keys \cup {DirKey} :
          (DownloadRequest(c, key) /\ key \notin DOMAIN files) =>
              /\ pc'[c] = "active"
              /\ UNCHANGED << out, next_file_port, transfers, pc >> ]_vars

\* ---- C22

\* The handler of c receives a well-framed request and dispatches it.
Dispatch(c) ==
    \E g \in GroupNames :
        \/ ChatRecv(c, g)
        \/ ChatRecvObject(c, g)
        \/ LeaveRecv(c, g)
        \/ GetHistory(c, g)
        \/ CreateNoMembers(c, g)
        \/ \E ms \in SUBSET Nicknames : CreateRecv(c, g, ms)
        \/ \E raw \in RawNicknames : NicknameRecv(c, raw)

\* C22: a connection never leaves the closed state and never returns to
\* registration, and no step that receives and dispatches a well-framed
\* request closes the session.
C22_RequestsKeepActive ==
    [][ \A c \in Conns :
          /\ pc[c] = "closed" => pc'[c] = "closed"
          /\ pc'[c] = "reg" => pc[c] = "reg"
          /\ Dispatch(c) => pc'[c] # "closed" ]_vars

\* ---- C23

\* C23: once a session has its nickname, no step changes it; and a nickname
\* message received by a logged-in session changes no nickname, no session
\* set, no membership in memory or in storage, and writes to no connection.
C23_NicknameFixed ==
    [][ \A c \in Conns :
          /\ nickname[c] # << >> => nickname'[c] = nickname[c]
          /\ \A raw \in RawNicknames :
                NicknameRecv(c, raw) =>
                    UNCHANGED << nickname, users, groups, dbGroups, dbMembers,
                                 dbMessages, out, pc >> ]_vars

\* C23 witness: two sessions are logged in under different nicknames and
\* one of them has sent a nickname message, which was handled.
C23_Witness ==
    \E c, d \in Conns :
        /\ users = << d, c >>
        /\ pc[c] = "active"
        /\ pc[d] = "active"
        /\ data[c].type = "nickname"
        /\ nickname[c] # << >>
        /\ nickname[d] # << >>
        /\ nickname[c] # nickname[d]
        /\ groups["General"] = << d, c >>

\* ---- C24

\* C24: when the broadcast of a session's join notice has gone through the
\* member list of General, every session that was a member when the
\* broadcast began and still is one, the joining session among them, has
\* been sent the notice; and a session that has been sent its own join
\* notice has been sent its group list before.
C24_JoinNoticeToAll ==
    \A c \in Conns :
        /\ ( /\ pc[c] = "announce"
             /\ bcast[c].idx > Len(groups[bcast[c].group]) )
           => \A m \in bcast[c].start \cap Members(bcast[c].group) :
                 CopiesIn(bcast[c].msg, out[m]) >= 1
        /\ (\E m \in BagToSet(out[c]) :
               m.type = "system" /\ m.notice = "joined" /\ m.src = c)
           => \E m \in BagToSet(out[c]) : m.type = "update_group_list"

\* ---- C25

\* The stored rows that hold the text of chat request n.
ChatRows(n) ==
    { i \in 1..Len(dbMessages) :
        dbMessages[i].content.type = "" /\ dbMessages[i].content.message = n }

\* C25: the step that receives a chat message for a group of the registry
\* appends one row for it and writes to no connection (the envelopes are
\* sent by later steps), so every chat envelope that was sent has its row;
\* and no message has two rows.
C25_PersistBeforeSend ==
    /\ [][ \A c \in Conns, g \in GroupNames :
             ((ChatRecv(c, g) \/ ChatRecvObject(c, g)) /\ g \in DOMAIN groups)
             => /\ Len(dbMessages') = Len(dbMessages) + 1
                /\ dbMessages'[Len(dbMessages')].group = g
                /\ dbMessages'[Len(dbMessages')].nickname = nickname[c]
                /\ out' = out ]_vars
    /\ [] \A c \in Conns : \A m \in BagToSet(out[c]) :
             m.type = "chat" => Cardinality(ChatRows(m.message)) = 1
    /\ [] \A i, j \in 1..Len(dbMessages) :
             (i # j /\ dbMessages[i].content.type = "")
                 => dbMessages[i].content # dbMessages[j].content
\* The file notification of the upload request that session c is handling.
NotificationOf(c) ==
    create_file_notification(nickname[c], data[c].filename, data[c].key,
                             data[c].group_name, c)

LeftNotice(c) ==
    create_system_message("left", nickname[c], data[c].group_name, c)

\* C27: for a leave_group naming a group other than General that the
\* registry holds when the request is read: the receiving step deletes the
\* stored membership and does nothing else; the locked step, the membership
\* being deleted, sends the "left" notice to every live member but the
\* leaver and takes the leaver out of the member list; the last step, the
\* leaver being out of the list, sends it the stored group list, which does
\* not hold the group.
C27_LeaveInOrder ==
    /\ [][ \A c \in Conns, g \in DOMAIN groups \ {"General"} :
             LeaveRecv(c, g) =>
               /\ dbMembers' = dbMembers \ { << nickname[c], g >> }
               /\ UNCHANGED << out, groups >> ]_vars
    /\ [][ \A c \in Conns :
             (LeaveLocked(c) /\ data[c].existing) =>
               LET g == data[c].group_name IN
               /\ << nickname[c], g >> \notin dbMembers
               /\ \A d \in Conns :
                    out'[d] = IF /\ d \in SeqToSet(groups[g]) \ {c}
                                 /\ pc[d] # "closed"
                              THEN out[d] (+) SetToBag({ LeftNotice(c) })
                              ELSE out[d]
               /\ SeqToSet(groups'[g]) = SeqToSet(groups[g]) \ {c}
               /\ \A h \in DOMAIN groups \ {g} : groups'[h] = groups[h] ]_vars
    /\ [][ \A c \in Conns :
             (LeaveReply(c) /\ data[c].existing) =>
               LET g == data[c].group_name IN
               /\ c \notin SeqToSet(groups[g])
               /\ \E gs \in SUBSET (GroupNames \ {g}) :
                    out' = [out EXCEPT ![c] = out[c] (+) SetToBag({
                               create_update_group_list_message(gs) })]
               /\ UNCHANGED << groups, dbMembers >> ]_vars

\* Session c has left a group of which d is still a live member: d holds
\* the notice, c does not, and c holds a group list without the group.
C27_Witness ==
    \E c, d \in Conns :
        /\ c # d
        /\ pc[c] = "active"
        /\ data[c].type = "leave_group"
        /\ data[c].existing
        /\ data[c].group_name \in DOMAIN groups
        /\ d \in SeqToSet(groups[data[c].group_name])
        /\ c \notin SeqToSet(groups[data[c].group_name])
        /\ CopiesIn(LeftNotice(c), out[d]) = 1
        /\ CopiesIn(LeftNotice(c), out[c]) = 0
        /\ CopiesIn(create_update_group_list_message({"General"}), out[c]) >= 1
\* ---- C28

\* The nicknames a create_group request of session c names, its own included.
Named(c) == data[c].members \cup {nickname[c]}

\* C28: the step that receives a create_group with a name storage does not
\* hold stores the group with the creator and the listed members and leaves
\* the registry and every connection alone; the locked step after it makes
\* every session of self.users with one of these nicknames a member of the
\* new group and sends it an update_group_list that holds the group, and
\* gives the other sessions no message and no membership.
C28_CreateThenAnnounce ==
    /\ [][ \A c \in Conns, g \in GroupNames \ dbGroups, ms \in SUBSET Nicknames :
             CreateRecv(c, g, ms) =>
               /\ dbGroups' = dbGroups \cup {g}
               /\ dbMembers' = dbMembers \cup
                                 { << n, g >> : n \in ms \cup {nickname[c]} }
               /\ UNCHANGED << groups, out >> ]_vars
    /\ [][ \A c \in Conns :
             CreateLocked(c) =>
               LET g == data[c].group_name IN
               /\ g \in dbGroups
               /\ g \in DOMAIN groups'
               /\ \A u \in Conns :
                    IF u \in SeqToSet(users) /\ nickname[u] \in Named(c)
                    THEN /\ u \in SeqToSet(groups'[g])
                         /\ pc[u] # "closed" =>
                              \E gs \in SUBSET GroupNames :
                                 /\ g \in gs
                                 /\ out'[u] = out[u] (+) SetToBag({
                                      create_update_group_list_message(gs) })
                    ELSE /\ u \notin SeqToSet(groups'[g])
                         /\ out'[u] = out[u] ]_vars
\* ---- C29

\* C29: an upload thread that has accepted a connection never listens or
\* accepts again; it reads only while fewer bytes than declared have come
\* and the peer has left something to read, and ends only on the declared
\* count or on the end of the stream; when it ends with fewer bytes than
\* declared, the file under its key holds exactly the bytes it received
\* and the step touches no session and no connection.
C29_TruncatedUpload ==
    /\ [][ \A t \in Threads :
             (transfers[t].kind = "upload"
                /\ transfers[t].lpc \in {"streaming", "done"})
             => transfers'[t].lpc \in {"streaming", "done"} ]_vars
    /\ [][ \A t \in Threads :
             (SrvRecvEnd(t)
                /\ transfers[t].bytes_received < transfers[t].filesize)
             => /\ transfers[t].eof
                /\ transfers'[t].lpc = "done"
                /\ files'[transfers[t].key] = transfers[t].got
                /\ Len(transfers[t].got) = transfers[t].bytes_received
                /\ UNCHANGED << pc, out, users, groups >> ]_vars
\* ---- C30

\* C30: an upload thread has written at most the declared number of bytes,
\* and when it has ended the file under its key is no longer than the
\* largest size declared for that key.
C30_AtMostDeclared ==
    \A t \in Threads :
        transfers[t].kind = "upload" =>
            /\ Len(transfers[t].got) <= transfers[t].filesize
            /\ (transfers[t].lpc = "done" /\ transfers[t].key \in DOMAIN files)
               => \E u \in Threads :
                     /\ transfers[u].key = transfers[t].key
                     /\ Len(files[transfers[t].key]) <= transfers[u].filesize
\* ---- C31

\* C31: the step that ends a registration on a first frame that is no
\* nickname message closes the connection and writes to no connection,
\* stores no session and no group member, and changes nothing in storage.
C31_OnlyNicknameAccepted ==
    [][ \A c \in Conns :
          RegisterAbort(c) =>
            /\ pc'[c] = "closed"
            /\ nickname'[c] = << >>
            /\ UNCHANGED << out, users, groups, dbGroups, dbMembers,
                            dbMessages >> ]_vars

\* A connection was closed in registration without a byte written to it,
\* while another session is registered and active.
C31_Witness ==
    \E c, d \in Conns :
        /\ pc[c] = "closed"
        /\ nickname[c] = << >>
        /\ out[c] = EmptyBag
        /\ c \notin SeqToSet(users)
        /\ pc[d] = "active"
\* ---- C32

\* C32: the file name announced for a key is the base name of the file name
\* of the upload request that made the key.
C32_NameRecovered ==
    naming.phase = "announced" =>
        naming.original_filename = basename(naming.filename)

\* A name was announced whose base name holds two underscores and which was
\* given with a directory part.
C32_Witness ==
    /\ naming.phase = "announced"
    /\ naming.filename # basename(naming.filename)
    /\ Len(split(basename(naming.filename), 95)) = 3
    /\ naming.original_filename # << >>
\* ---- C33

\* C33: whichever clients have stalled, a session whose own client has not
\* can go on: a connection whose turn it is to register is answered, an
\* active session can have a chat message for General taken in (while the
\* run has requests left) and can be cleaned up, and no handler sits in a
\* send inside the locked section.
C33_StallIsLocal ==
    \A c \in Conns :
        /\ (pc[c] = "reg" /\ \A d \in Earlier(c) : pc[d] # "reg")
              => ENABLED Register(c, << c >>)
        /\ (pc[c] = "active" /\ nreq < MaxRequests)
              => ENABLED ChatRecv(c, "General")
        /\ pc[c] = "active" => ENABLED Disconnect(c)
        /\ pc[c] # "stuck_locked"
\* ---- C34

\* C34: once the reply that announces a transfer's port is written to the
\* requester, the listener of that transfer is bound, and no client that
\* connects to an announced port is refused.
C34_ListeningBeforeReply ==
    \A t \in Threads :
        /\ transfers[t].cpc # "refused"
        /\ (\E m \in BagToSet(out[transfers[t].owner]) :
               /\ m.type \in {"upload_ready", "download_ready"}
               /\ m.port = transfers[t].port)
           => transfers[t].lpc # "start"
\* ---- C35

\* C35: no transfer thread was given the port the server itself listens
\* on, or a number above 65535.
C35_PortsValid ==
    \A t \in Threads :
        /\ transfers[t].port # MainPort
        /\ transfers[t].port <= 65535
\* ---- C36

\* C36: when no sendall is under way, the bytes written to the connection
\* are the frames of the messages sent, whole, one after the other in some
\* order.
C36_WholeFramesOnly ==
    (\A c \in Conns : sending[c] = << >>) =>
        \E p \in Permutations(1..Len(framesSent)) :
            wrote = Frames([i \in 1..Len(framesSent) |-> framesSent[p[i]]])
\* ---- C37

\* C37: every upload to a key had stored its whole file when a download of
\* that key was answered, and the answer announced that upload's declared
\* size.
C37_NoDownloadInFlight ==
    \A d, u \in Threads :
        ( /\ transfers[d].kind = "download"
          /\ transfers[u].kind = "upload"
          /\ u < d
          /\ transfers[u].key = transfers[d].key )
        => /\ u \in transfers[d].after
           /\ transfers[d].filesize = transfers[u].filesize
\* ---- C38

\* C38: a chat message for a group of which the sending session is no
\* member when the message is handled is not stored and starts no
\* broadcast.
C38_MembersOnly ==
    [][ \A c \in Conns, g \in DOMAIN groups :
          (ChatRecv(c, g) /\ c \notin SeqToSet(groups[g]))
          => UNCHANGED << dbMessages, bcast, out >> ]_vars

\* ---- C39

\* C39: the locked step of a leave_group from a session that is no member
\* of the named group writes to no connection.
C39_LeaveNoticeFromMember ==
    [][ \A c \in Conns :
          ( /\ LeaveLocked(c)
            /\ data[c].group_name \in DOMAIN groups
            /\ c \notin SeqToSet(groups[data[c].group_name]) )
          => UNCHANGED out ]_vars
\* ---- C40

\* C40: every upload_ready the client has read started the upload of the
\* file its request was for: the i-th started the i-th path.
C40_PendingPathFound ==
    \A i \in 1..Len(client.started) : client.started[i] = i
====
